---- MODULE Spec2Model ----
(***************************************************************************)
(* File-based progress tracker (cli-progress-reporting).                   *)
(*                                                                         *)
(* Several operating-system processes run init / increment / set /         *)
(* finish / get / clear on one tracker path.  Every file-system call of    *)
(* the code (existsSync, readFileSync, writeFileSync, renameSync,          *)
(* unlinkSync) is one step, so calls of different processes interleave     *)
(* between those steps.  writeFileSync is two steps (the file is created   *)
(* with the first part of the buffer, then completed), so a partially      *)
(* written file is a state of the model.                                   *)
(***************************************************************************)
EXTENDS Integers, FiniteSets, Sequences, TLC

\* ------------------------------------------------------------- bounds
MaxTotal == 2
MaxAmount == 2
MaxTime == 1

\* the total of the fresh tracker two processes increment at once
FreshTotal == 100

\* the processes that may share the tracker; a specification uses all of them
\* (proc's domain is Procs) or one
Procs == {1, 2}
Totals == 0..MaxTotal
Amounts == (-1)..MaxAmount
\* "" stands for an omitted (or empty) message: both are falsy in `if (message)`
Msgs == {"", "m"}

\* ------------------------------------------------------------- values
\* ProgressState; NoState is the placeholder for "no state held"
NoState ==
    [total |-> 0, current |-> 0, message |-> "", percentage |-> 0,
     startTime |-> 0, updatedTime |-> 0, complete |-> FALSE]

\* What a path holds.  A JSON buffer is written in two parts: head and tail
\* name the state each part was serialised from (NoState: part not written).
Absent == [kind |-> "absent", head |-> NoState, tail |-> NoState]
Garbage == [kind |-> "garbage", head |-> NoState, tail |-> NoState]
BadFormat == [kind |-> "badformat", head |-> NoState, tail |-> NoState]
Half(s) == [kind |-> "json", head |-> s, tail |-> NoState]
Whole(s) == [kind |-> "json", head |-> s, tail |-> s]

IsWhole(c) == c.kind = "json" /\ c.head = c.tail /\ c.head # NoState

Min(a, b) == IF a <= b THEN a ELSE b

\* Math.round(x) for x = n/d >= 0, d > 0: floor(x + 1/2)
Round(n, d) == (2 * n + d) \div (2 * d)

Percentage(current, total) == Round(current * 100, total)

\* the tracker's backing path and the temp path of process p's write call
Path == <<"progress", 0>>
Tmp(p) == <<"tmp", p>>
Paths == {Path} \cup {Tmp(p) : p \in Procs}

VARIABLES
    fs,       \* what each path holds
    now,      \* Date.now()
    proc,     \* per process: the call it is in and where it stands in it
    orphaned  \* whether a failed write has left a temp file behind

vars == <<fs, now, proc, orphaned>>

\* ------------------------------------------------------- pure functions
InitState(total, message, t) ==
    [total |-> total, current |-> 0, message |-> message, percentage |-> 0,
     startTime |-> t, updatedTime |-> t, complete |-> FALSE]

\* `if (message) state.message = message`
WithMessage(s, message) ==
    IF message # "" THEN [s EXCEPT !.message = message] ELSE s

\* increment without the clamp at total
IncrementNoClamp(s, amount, message, t) ==
    LET c == s.current + amount
        s1 == [s EXCEPT !.current = c,
                        !.percentage = Percentage(c, s.total),
                        !.updatedTime = t]
        s2 == WithMessage(s1, message)
    IN  IF c >= s.total THEN [s2 EXCEPT !.complete = TRUE] ELSE s2

\* increment that counts the call itself as one more unit
IncrementOffByOne(s, amount, message, t) ==
    LET c == Min(s.current + amount + 1, s.total)
        s1 == [s EXCEPT !.current = c,
                        !.percentage = Percentage(c, s.total),
                        !.updatedTime = t]
        s2 == WithMessage(s1, message)
    IN  IF c >= s.total THEN [s2 EXCEPT !.complete = TRUE] ELSE s2

IncrementState(s, amount, message, t) ==
    LET c == Min(s.current + amount, s.total)
        s1 == [s EXCEPT !.current = c,
                        !.percentage = Percentage(c, s.total),
                        !.updatedTime = t]
        s2 == WithMessage(s1, message)
    IN  IF c >= s.total THEN [s2 EXCEPT !.complete = TRUE] ELSE s2

\* set that assigns complete = (current >= total) instead of only raising it
SetAssignsComplete(s, current, message, t) ==
    LET c == Min(current, s.total)
        s1 == [s EXCEPT !.current = c,
                        !.percentage = Percentage(c, s.total),
                        !.updatedTime = t]
        s2 == WithMessage(s1, message)
    IN  [s2 EXCEPT !.complete = (c >= s.total)]

\* set that leaves the percentage it read
SetKeepsPercentage(s, current, message, t) ==
    LET c == Min(current, s.total)
        s1 == [s EXCEPT !.current = c, !.updatedTime = t]
        s2 == WithMessage(s1, message)
    IN  IF c >= s.total THEN [s2 EXCEPT !.complete = TRUE] ELSE s2

SetState(s, current, message, t) ==
    LET c == Min(current, s.total)
        s1 == [s EXCEPT !.current = c,
                        !.percentage = Percentage(c, s.total),
                        !.updatedTime = t]
        s2 == WithMessage(s1, message)
    IN  IF c >= s.total THEN [s2 EXCEPT !.complete = TRUE] ELSE s2

\* finish that restarts the clock of the tracker
FinishRestarts(s, message, t) ==
    WithMessage([s EXCEPT !.current = s.total, !.percentage = 100,
                          !.complete = TRUE, !.startTime = t,
                          !.updatedTime = t], message)

\* finish that marks the tracker complete without moving current
FinishKeepsCurrent(s, message, t) ==
    WithMessage([s EXCEPT !.percentage = 100, !.complete = TRUE,
                          !.updatedTime = t], message)

FinishState(s, message, t) ==
    WithMessage([s EXCEPT !.current = s.total, !.percentage = 100,
                          !.complete = TRUE, !.updatedTime = t], message)

\* the state a mutating call computes from the state it read
NextState(o, s, t) ==
    CASE o.kind = "increment" -> IncrementState(s, o.n, o.msg, t)
      [] o.kind = "set" -> SetState(s, o.n, o.msg, t)
      [] o.kind = "finish" -> FinishState(s, o.msg, t)
      [] OTHER -> s

\* readProgress once existsSync has returned true: what readFileSync,
\* JSON.parse and the typeof check make of the content
ReadError(c) ==
    CASE c.kind = "absent" -> "enoent"
      [] c.kind = "garbage" -> "parse"
      [] c.kind = "badformat" -> "format"
      [] ~IsWhole(c) -> "parse"
      [] OTHER -> "ok"

\* writeFileSync straight onto the tracker file
WriteInPlace(p) == Path

\* the path writeFileSync writes to in writeProgressAtomic
WriteTarget(p) == Tmp(p)

\* ------------------------------------------------------------- calls
NoOp == [kind |-> "none", n |-> 0, msg |-> ""]

\* the calls with their arguments, messages drawn from M
InitOps(M) == {[kind |-> "init", n |-> t, msg |-> m] : t \in Totals, m \in M}
IncrementOps(M) == {[kind |-> "increment", n |-> a, msg |-> m] : a \in Amounts, m \in M}
SetOps(M) == {[kind |-> "set", n |-> a, msg |-> m] : a \in Amounts, m \in M}
FinishOps(M) == {[kind |-> "finish", n |-> 0, msg |-> m] : m \in M}
GetOps == {[kind |-> "get", n |-> 0, msg |-> ""]}
ClearOps == {[kind |-> "clear", n |-> 0, msg |-> ""]}
ReadOps(M) == IncrementOps(M) \cup SetOps(M) \cup FinishOps(M) \cup GetOps

KindOnly(o) == [NoOp EXCEPT !.kind = o.kind]

\* pc: where the process stands; op: the call; rd: the state the call read
\* (kept until the write starts); st: the state the call writes; res: the last call's result ("none" while a
\* call runs); touched: whether the call has changed what Path holds
IdleProc ==
    [pc |-> "idle", alive |-> TRUE, op |-> NoOp, rd |-> NoState, st |-> NoState,
     res |-> "none", touched |-> FALSE]

Idle(p) == proc[p].alive /\ proc[p].pc = "idle"
At(p, where) == proc[p].alive /\ proc[p].pc = where

\* a call starts
Called(o, pc0) == [IdleProc EXCEPT !.pc = pc0, !.op = o]

\* a call returns r: only its kind, its result and whether it changed Path
\* are remembered
Returned(q, r) ==
    [IdleProc EXCEPT !.op = KindOnly(q.op), !.res = r, !.touched = q.touched]

\* init that does not check its total
BeginInitUnchecked(p, o) ==
    /\ Idle(p)
    /\ o.kind = "init"
    /\ proc' = [proc EXCEPT ![p] =
                  [Called(KindOnly(o), "ready") EXCEPT
                     !.st = InitState(o.n, o.msg, now)]]
    /\ UNCHANGED <<fs, now, orphaned>>

\* init(total, message): validation, Date.now(), the state to write
BeginInit(p, o) ==
    /\ Idle(p)
    /\ o.kind = "init"
    /\ proc' = [proc EXCEPT ![p] =
                  IF o.n <= 0
                  THEN Returned(Called(o, "idle"), "validation")
                  ELSE [Called(KindOnly(o), "ready") EXCEPT
                          !.st = InitState(o.n, o.msg, now)]]
    /\ UNCHANGED <<fs, now, orphaned>>

\* the same without the check of the amount
BeginReadUnchecked(p, o) ==
    /\ Idle(p)
    /\ o.kind \in {"increment", "set", "finish", "get"}
    /\ proc' = [proc EXCEPT ![p] =
                  IF fs[Path].kind = "absent"
                  THEN Returned(Called(o, "idle"), "notfound")
                  ELSE Called(o, "read")]
    /\ UNCHANGED <<fs, now, orphaned>>

\* the same without existsSync: the call goes straight to readFileSync
BeginReadNoExists(p, o) ==
    /\ Idle(p)
    /\ o.kind \in {"increment", "set", "finish", "get"}
    /\ proc' = [proc EXCEPT ![p] =
                  IF o.kind \in {"increment", "set"} /\ o.n < 0
                  THEN Returned(Called(o, "idle"), "validation")
                  ELSE Called(o, "read")]
    /\ UNCHANGED <<fs, now, orphaned>>

\* increment / set / finish / get: validation, then existsSync of readProgress
BeginRead(p, o) ==
    /\ Idle(p)
    /\ o.kind \in {"increment", "set", "finish", "get"}
    /\ proc' = [proc EXCEPT ![p] =
                  IF o.kind \in {"increment", "set"} /\ o.n < 0
                  THEN Returned(Called(o, "idle"), "validation")
                  ELSE IF fs[Path].kind = "absent"
                       THEN Returned(Called(o, "idle"), "notfound")
                       ELSE Called(o, "read")]
    /\ UNCHANGED <<fs, now, orphaned>>

\* readFileSync, JSON.parse, the typeof check; a mutating call then computes
\* the state to write (Date.now() is read here)
ReadFile(p) ==
    /\ At(p, "read")
    /\ \E ioerr \in BOOLEAN :
         LET q == proc[p]
             e == IF ioerr THEN "io" ELSE ReadError(fs[Path])
             s == fs[Path].head
         IN  proc' = [proc EXCEPT ![p] =
                        IF e # "ok" THEN Returned(q, e)
                        ELSE IF q.op.kind = "get" THEN Returned(q, "ok")
                        ELSE [q EXCEPT !.pc = "ready", !.op = KindOnly(q.op),
                                       !.rd = s, !.st = NextState(q.op, s, now)]]
    /\ UNCHANGED <<fs, now, orphaned>>

\* a failed write leaves its temp file, whose name is never used again, behind
LeaveTemp(p) ==
    /\ fs' = [fs EXCEPT ![Tmp(p)] = Absent]
    /\ orphaned' = (orphaned \/ fs[Tmp(p)] # Absent)

\* a write that is not waited for: the call goes on to the rename while the
\* rest of the buffer is still to be written
WriteOpenNoWait(p) ==
    /\ At(p, "ready")
    /\ fs' = [fs EXCEPT ![WriteTarget(p)] = Half(proc[p].st)]
    /\ proc' = [proc EXCEPT ![p] = [@ EXCEPT !.pc = "full", !.rd = NoState]]
    /\ UNCHANGED <<now, orphaned>>

\* writeFileSync creates the target with the first part of the buffer, or fails
\* before creating anything
WriteOpen(p) ==
    /\ At(p, "ready")
    /\ \E ok \in BOOLEAN :
         LET q == proc[p] IN
         IF ok
         THEN /\ fs' = [fs EXCEPT ![WriteTarget(p)] = Half(q.st)]
              /\ proc' = [proc EXCEPT ![p] =
                            [q EXCEPT !.pc = "half", !.rd = NoState,
                                      !.touched = @ \/ WriteTarget(p) = Path]]
         ELSE /\ proc' = [proc EXCEPT ![p] = Returned(q, "write")]
              /\ UNCHANGED fs
    /\ UNCHANGED <<now, orphaned>>

\* writeFileSync writes the rest of the buffer, or fails and leaves the partial
\* file behind
WriteRest(p) ==
    /\ At(p, "half")
    /\ \E ok \in BOOLEAN :
         LET q == proc[p] IN
         IF ok
         THEN /\ fs' = [fs EXCEPT ![WriteTarget(p)] = [@ EXCEPT !.tail = q.st]]
              /\ proc' = [proc EXCEPT ![p] = [q EXCEPT !.pc = "full"]]
              /\ UNCHANGED orphaned
         ELSE /\ proc' = [proc EXCEPT ![p] = Returned(q, "write")]
              /\ LeaveTemp(p)
    /\ UNCHANGED now

\* a rename that first removes the destination
RenameUnlinksFirst(p) ==
    /\ At(p, "full")
    /\ \E ok \in BOOLEAN :
         LET q == proc[p] IN
         IF ok /\ fs[Tmp(p)] # Absent
         THEN /\ fs' = [fs EXCEPT ![Path] = fs[Tmp(p)], ![Tmp(p)] = Absent]
              /\ proc' = [proc EXCEPT ![p] = Returned([q EXCEPT !.touched = TRUE], "ok")]
              /\ UNCHANGED orphaned
         ELSE /\ proc' = [proc EXCEPT ![p] =
                            Returned([q EXCEPT !.touched = @ \/ fs[Path] # Absent], "rename")]
              /\ fs' = [fs EXCEPT ![Path] = Absent, ![Tmp(p)] = Absent]
              /\ orphaned' = (orphaned \/ fs[Tmp(p)] # Absent)
    /\ UNCHANGED now

\* renameSync(tempPath, filePath): all or nothing
Rename(p) ==
    /\ At(p, "full")
    /\ \E ok \in BOOLEAN :
         LET q == proc[p] IN
         IF ok /\ fs[Tmp(p)] # Absent
         THEN /\ fs' = [fs EXCEPT ![Path] = fs[Tmp(p)], ![Tmp(p)] = Absent]
              /\ proc' = [proc EXCEPT ![p] = Returned([q EXCEPT !.touched = TRUE], "ok")]
              /\ UNCHANGED orphaned
         ELSE /\ proc' = [proc EXCEPT ![p] = Returned(q, "rename")]
              /\ LeaveTemp(p)
    /\ UNCHANGED now

\* clear: existsSync; nothing to delete is success
BeginClear(p, o) ==
    /\ Idle(p)
    /\ o.kind = "clear"
    /\ proc' = [proc EXCEPT ![p] =
                  IF fs[Path].kind = "absent"
                  THEN Returned(Called(o, "idle"), "ok")
                  ELSE Called(o, "unlink")]
    /\ UNCHANGED <<fs, now, orphaned>>

\* clear: unlinkSync, which throws when the file is gone by now (ENOENT,
\* result "gone") or cannot be removed (result "clear"); the catch block turns
\* either into a failure
Unlink(p) ==
    /\ At(p, "unlink")
    /\ \E ok \in BOOLEAN :
         LET q == proc[p] IN
         IF ok /\ fs[Path].kind # "absent"
         THEN /\ fs' = [fs EXCEPT ![Path] = Absent]
              /\ proc' = [proc EXCEPT ![p] = Returned([q EXCEPT !.touched = TRUE], "ok")]
         ELSE /\ proc' = [proc EXCEPT ![p] =
                            Returned(q, IF fs[Path].kind = "absent"
                                        THEN "gone" ELSE "clear")]
              /\ UNCHANGED fs
    /\ UNCHANGED <<now, orphaned>>

\* the process dies in the middle of a call; what it left on disk stays
Crash(p) ==
    /\ proc[p].alive
    /\ proc[p].pc # "idle"
    /\ proc' = [proc EXCEPT ![p].alive = FALSE]
    /\ UNCHANGED <<fs, now, orphaned>>

\* the process dies right after renameSync, before the call returns
RenameCrash(p) ==
    /\ At(p, "full")
    /\ fs[Tmp(p)] # Absent
    /\ fs' = [fs EXCEPT ![Path] = fs[Tmp(p)], ![Tmp(p)] = Absent]
    /\ proc' = [proc EXCEPT ![p] = [@ EXCEPT !.pc = "renamed", !.alive = FALSE,
                                             !.touched = TRUE]]
    /\ UNCHANGED <<now, orphaned>>

\* the millisecond clock behind Date.now()
Tick ==
    /\ now < MaxTime
    /\ now' = now + 1
    /\ UNCHANGED <<fs, proc, orphaned>>

\* a file-system step of a read-modify-write call in progress
RmwStep(p) ==
    \/ ReadFile(p)
    \/ WriteOpen(p)
    \/ WriteRest(p)
    \/ Rename(p)

\* a file-system step of any call in progress
Step(p) ==
    \/ RmwStep(p)
    \/ Unlink(p)

\* ------------------------------------------------------ specifications
InitLocal(P) ==
    /\ now = 0
    /\ proc = [p \in P |-> IdleProc]
    /\ orphaned = FALSE

NoFiles == [f \in Paths |-> Absent]

\* Spec: two processes share the tracker; every call, with and without the
\* arguments validation rejects; all calls fall in one millisecond and carry
\* no message.
Init ==
    /\ fs = NoFiles
    /\ InitLocal(Procs)

Calls(M) ==
    \/ \E p \in DOMAIN proc, o \in InitOps(M) : BeginInit(p, o)
    \/ \E p \in DOMAIN proc, o \in ReadOps(M) : BeginRead(p, o)
    \/ \E p \in DOMAIN proc, o \in ClearOps : BeginClear(p, o)

Next ==
    \/ Calls({""})
    \/ \E p \in DOMAIN proc : Step(p)

Spec == Init /\ [][Next]_vars

\* SpecSeq: one process, whose calls are therefore serialized; messages and
\* the clock included.
InitSeq ==
    /\ fs = NoFiles
    /\ InitLocal({1})

NextSeq ==
    \/ Calls(Msgs)
    \/ \E p \in DOMAIN proc : Step(p)
    \/ Tick

SpecSeq == InitSeq /\ [][NextSeq]_vars

\* SpecRace: a fresh tracker (total FreshTotal, current 0) and two processes
\* that each call increment(1) once, at the same time.
InitRace ==
    /\ fs = [NoFiles EXCEPT ![Path] = Whole(InitState(FreshTotal, "", 0))]
    /\ InitLocal(Procs)

NextRace ==
    \/ \E p \in DOMAIN proc :
         /\ proc[p] = IdleProc
         /\ BeginRead(p, [kind |-> "increment", n |-> 1, msg |-> ""])
    \/ \E p \in DOMAIN proc : RmwStep(p)
    \/ Tick

SpecRace == InitRace /\ [][NextRace]_vars

\* SpecIncFinish: an initialized tracker that two processes mutate through
\* increment and finish only.
InitIncFinish ==
    /\ \E t \in 1..MaxTotal :
         fs = [NoFiles EXCEPT ![Path] = Whole(InitState(t, "", 0))]
    /\ InitLocal(Procs)

NextIncFinish ==
    \/ \E p \in DOMAIN proc, o \in IncrementOps({""}) \cup FinishOps({""}) :
         BeginRead(p, o)
    \/ \E p \in DOMAIN proc : RmwStep(p)

SpecIncFinish == InitIncFinish /\ [][NextIncFinish]_vars

\* SpecMutate: an initialized tracker that two processes mutate through
\* increment, set and finish (no init, no clear).
NextMutate ==
    \/ \E p \in DOMAIN proc,
          o \in IncrementOps({""}) \cup SetOps({""}) \cup FinishOps({""}) :
         BeginRead(p, o)
    \/ \E p \in DOMAIN proc : RmwStep(p)

SpecMutate == InitIncFinish /\ [][NextMutate]_vars

\* SpecCrash: SpecSeq, where the process may die at any point of a call.
NextCrash ==
    \/ NextSeq
    \/ \E p \in DOMAIN proc : Crash(p)
    \/ \E p \in DOMAIN proc : RenameCrash(p)

SpecCrash == InitSeq /\ [][NextCrash]_vars

\* SpecFaulty: Spec, where the tracker file may have been damaged (cut short,
\* or edited into JSON of another shape) before the processes start.
InitFaulty ==
    /\ fs \in {[NoFiles EXCEPT ![Path] = c] : c \in {Absent, Garbage, BadFormat}}
    /\ InitLocal(Procs)

SpecFaulty == InitFaulty /\ [][Next]_vars

\* SpecClear: an initialized tracker; one process clears it while the other
\* calls increment, set, finish and get.
NextClear ==
    \/ \E o \in ClearOps : BeginClear(1, o)
    \/ \E o \in ReadOps({""}) : BeginRead(2, o)
    \/ \E p \in DOMAIN proc : Step(p)

SpecClear == InitIncFinish /\ [][NextClear]_vars

\* ------------------------------------------------------------ messages
MAX_MESSAGE_LENGTH == 10000

\* s repeated n times
RECURSIVE Repeat(_, _)
Repeat(s, n) ==
    IF n = 0 THEN ""
    ELSE LET h == Repeat(s, n \div 2)
         IN  IF n % 2 = 0 THEN h \o h ELSE h \o h \o s

\* validateMessage, which no function of the module calls
validateMessage(message) ==
    IF Len(message) > MAX_MESSAGE_LENGTH THEN "validation" ELSE "ok"

\* no message, the longest message validateMessage accepts, and one longer
LongMsgs == {"", Repeat("m", MAX_MESSAGE_LENGTH), Repeat("m", MAX_MESSAGE_LENGTH + 1)}

\* SpecMsg: one process, whose calls carry messages of any length.
NextMsg ==
    \/ Calls(LongMsgs)
    \/ \E p \in DOMAIN proc : Step(p)

SpecMsg == InitSeq /\ [][NextMsg]_vars

\* ---------------------------------------------------------- identifiers
\* Identifiers and paths are sequences of characters.  SpecIds has one process
\* that calls init on single trackers, constructs MultiProgress containers
\* and adds members, with identifiers of every shape; each call is one step.
MaxIdLen == 2
MaxCalls == 3
\* the longest identifier validateId accepts
IdMaxLength == 255

Rep(c, n) == [i \in 1..n |-> c]

\* the characters of [a-zA-Z0-9_-]
SafeChars ==
    {"a", "b", "c", "d", "e", "f", "g", "h", "i", "j", "k", "l", "m", "n", "o",
     "p", "q", "r", "s", "t", "u", "v", "w", "x", "y", "z",
     "A", "B", "C", "D", "E", "F", "G", "H", "I", "J", "K", "L", "M", "N", "O",
     "P", "Q", "R", "S", "T", "U", "V", "W", "X", "Y", "Z",
     "0", "1", "2", "3", "4", "5", "6", "7", "8", "9", "_", "-"}

\* the characters the identifiers passed by callers are made of
IdChars == {"a", "-", ".", "/"}

\* <<>> stands for an omitted (or empty) id: both are falsy in `id || ...`
Ids ==
    UNION {[1..n -> IdChars] : n \in 0..MaxIdLen}
        \cup {Rep("a", IdMaxLength), Rep("a", IdMaxLength + 1)}

\* what generateTrackerId may return: 'tracker-<ms>-<8 hex digits>'
GeneratedIds ==
    {<<"t", "r", "a", "c", "k", "e", "r", "-", "0", "-", h>> : h \in {"0", "1"}}

validateId(id) ==
    IF Len(id) = 0 THEN "empty"
    ELSE IF Len(id) > IdMaxLength THEN "long"
    ELSE IF \E i \in 1..Len(id) : id[i] \notin SafeChars THEN "chars"
    ELSE "ok"

\* `id || 'default'`
OrDefault(id) ==
    IF id = <<>> THEN <<"d", "e", "f", "a", "u", "l", "t">> ELSE id

ProgressPrefix == <<"p", "r", "o", "g", "r", "e", "s", "s", "-">>
MultiInfix == <<"m", "u", "l", "t", "i", "-">>
JsonSuffix == <<".", "j", "s", "o", "n">>

\* getProgressFilePath for a config without filePath
getProgressFilePath(id) ==
    LET i == OrDefault(id) IN
    IF validateId(i) # "ok"
    THEN [ok |-> FALSE, path |-> <<>>]
    ELSE [ok |-> TRUE, path |-> ProgressPrefix \o i \o JsonSuffix]

\* this.filePath of a MultiProgress whose this.id is id
MultiFilePath(id) == ProgressPrefix \o MultiInfix \o id \o JsonSuffix

\* the id of the member tracker: `${this.id}-${trackerId}`
MemberId(group, trackerId) == group \o <<"-">> \o trackerId

\* the aggregate file: MultiProgressState
Aggregate(trackers, created, updated) ==
    [kind |-> "multi", trackers |-> trackers, created |-> created,
     updated |-> updated]

NoTrackers == [m \in {} |-> NoState]

\* a file table whose domain is the set of existing paths
Holds(f, k) == IF k \in DOMAIN f THEN f[k] ELSE Absent
Put(f, k, v) == [x \in DOMAIN f \cup {k} |-> IF x = k THEN v ELSE f[x]]

\* the property name whose assignment replaces an object's prototype
ProtoKey == <<"_", "_", "p", "r", "o", "t", "o", "_", "_">>

\* `trackers[k] = v` on the parsed aggregate, as JSON.stringify then writes
\* it: an own property for every key but '__proto__', whose assignment sets
\* the prototype and adds no property
Assign(f, k, v) == IF k = ProtoKey THEN f ELSE Put(f, k, v)

\* no MultiProgress instance
NoGroup == <<"none">>

\* the process: its MultiProgress instance (this.id, the keys of this.trackers),
\* its last call and result, whether that call reached the file system, and
\* the number of calls made
IdProc ==
    [pc |-> "idle", op |-> [kind |-> "none", id |-> <<>>], res |-> "none",
     accessed |-> FALSE, group |-> NoGroup, trackers |-> {}, calls |-> 0]

IdReturned(q, kind, id, r, acc) ==
    [q EXCEPT !.op = [kind |-> kind, id |-> id], !.res = r, !.accessed = acc,
              !.calls = @ + 1]

\* init(1, "", {id}) as one step: the path is derived before any fs call;
\* the write may fail
InitWithId(p, id) ==
    /\ proc[p].calls < MaxCalls
    /\ \E ok \in BOOLEAN :
         LET r == getProgressFilePath(id) IN
         IF ~r.ok
         THEN /\ proc' = [proc EXCEPT ![p] = IdReturned(@, "init", id, "validation", FALSE)]
              /\ UNCHANGED fs
         ELSE IF ok
         THEN /\ proc' = [proc EXCEPT ![p] = IdReturned(@, "init", id, "ok", TRUE)]
              /\ fs' = Put(fs, r.path, Whole(InitState(1, "", now)))
         ELSE /\ proc' = [proc EXCEPT ![p] = IdReturned(@, "init", id, "write", TRUE)]
              /\ UNCHANGED fs
    /\ UNCHANGED <<now, orphaned>>

\* new MultiProgress({id}) as one step: the path is built from the id as
\* given; existsSync, then writeState when the file is missing.  writeState
\* rethrows what writeFileSync or renameSync throw (the directory a separator
\* points into is missing, the name is too long for the file system, ...),
\* and the constructor with it.
Construct(p, id) ==
    /\ proc[p].calls < MaxCalls
    /\ \E ok \in BOOLEAN :
         LET g == OrDefault(id)
             path == MultiFilePath(g)
             made == [proc[p] EXCEPT !.group = g, !.trackers = {}]
         IN  IF path \in DOMAIN fs
             THEN /\ proc' = [proc EXCEPT ![p] =
                                IdReturned(made, "construct", id, "ok", TRUE)]
                  /\ UNCHANGED fs
             ELSE IF ok
             THEN /\ proc' = [proc EXCEPT ![p] =
                                IdReturned(made, "construct", id, "ok", TRUE)]
                  /\ fs' = Put(fs, path, Aggregate(NoTrackers, now, now))
             ELSE /\ proc' = [proc EXCEPT ![p] =
                                IdReturned(@, "construct", id, "throw:write", TRUE)]
                  /\ UNCHANGED fs
    /\ UNCHANGED <<now, orphaned>>

\* add({trackerId: id, total: 1, message: ""}) as one step: the member
\* tracker's constructor runs init and throws when init fails; then the
\* member is mirrored into the aggregate when that can be read, and a failing
\* writeState throws
AddWithId(p, id) ==
    /\ proc[p].calls < MaxCalls
    /\ proc[p].group # NoGroup
    /\ \E gen \in GeneratedIds, ok \in BOOLEAN, okAgg \in BOOLEAN :
         LET q == proc[p]
             trackerId == IF id = <<>> THEN gen ELSE id
             r == getProgressFilePath(MemberId(q.group, trackerId))
             s == InitState(1, "", now)
             agg == MultiFilePath(q.group)
             fs1 == Put(fs, r.path, Whole(s))
             known == [q EXCEPT !.trackers = @ \cup {trackerId}]
         IN  IF ~r.ok
             THEN /\ proc' = [proc EXCEPT ![p] =
                                IdReturned(q, "add", id, "throw:validation", FALSE)]
                  /\ UNCHANGED fs
             ELSE IF ~ok
             THEN /\ proc' = [proc EXCEPT ![p] =
                                IdReturned(q, "add", id, "throw:write", TRUE)]
                  /\ UNCHANGED fs
             ELSE IF Holds(fs1, agg).kind # "multi"
             THEN /\ proc' = [proc EXCEPT ![p] = IdReturned(known, "add", id, "ok", TRUE)]
                  /\ fs' = fs1
             ELSE IF okAgg
             THEN /\ proc' = [proc EXCEPT ![p] = IdReturned(known, "add", id, "ok", TRUE)]
                  /\ fs' = Put(fs1, agg,
                                [fs1[agg] EXCEPT !.trackers = Assign(@, trackerId, s),
                                                 !.updated = now])
             ELSE /\ proc' = [proc EXCEPT ![p] =
                                IdReturned(known, "add", id, "throw:write", TRUE)]
                  /\ fs' = fs1
    /\ UNCHANGED <<now, orphaned>>

InitIds ==
    /\ fs = [f \in {} |-> Absent]
    /\ now = 0
    /\ proc = [p \in {1} |-> IdProc]
    /\ orphaned = FALSE

NextIds ==
    \/ \E p \in DOMAIN proc, id \in Ids : Construct(p, id)
    \/ \E p \in DOMAIN proc, id \in Ids : InitWithId(p, id)
    \/ \E p \in DOMAIN proc, id \in Ids : AddWithId(p, id)

SpecIds == InitIds /\ [][NextIds]_vars

\* SpecPaths: the calls of SpecIds with valid identifiers that contain
\* hyphens or start with 'multi-', while time passes.
PathIds ==
    {<<"a">>, <<"a", "-">>, <<"-", "a">>, <<"a", "-", "a">>, MultiInfix \o <<"a">>}

SinglePath(id) == getProgressFilePath(id).path
GroupMemberPath(group, trackerId) == getProgressFilePath(MemberId(group, trackerId)).path

NextPaths ==
    \/ \E p \in DOMAIN proc, id \in PathIds : Construct(p, id)
    \/ \E p \in DOMAIN proc, id \in PathIds : InitWithId(p, id)
    \/ \E p \in DOMAIN proc, id \in PathIds : AddWithId(p, id)
    \/ Tick

SpecPaths == InitIds /\ [][NextPaths]_vars

\* ------------------------------------------------------- MultiProgress
\* One group, whose members have their own tracker files and are mirrored in
\* the aggregate file.  A process holds one MultiProgress instance.  Each read
\* of the aggregate (readState), each write of it (writeState, whose rename
\* is the only visible effect) and each call on a member tracker is one step.
GroupId == <<"g">>
Members == {<<"a">>, <<"b">>}

AggPath == MultiFilePath(GroupId)
MemberPath(m) == getProgressFilePath(MemberId(GroupId, m)).path
GroupPaths == {AggPath} \cup {MemberPath(m) : m \in Members \cup {ProtoKey}}

NoView == <<"none">>

\* pc: where the process stands in a call ("read": before readState, "write":
\* before writeState, "ctor": before the constructor's writeState); made:
\* whether the instance exists; trackers: the keys of this.trackers; rd: the
\* aggregate readState returned; view: what the last status() returned
GroupProc ==
    [pc |-> "idle", op |-> [kind |-> "none", id |-> <<>>], res |-> "none",
     made |-> FALSE, trackers |-> {}, rd |-> Absent, view |-> NoView]

GIdle(p) == proc[p].pc = "idle"

\* a call of the instance starts: the result of the last one is forgotten
GCalled(q, kind, id, pc0) ==
    [q EXCEPT !.pc = pc0, !.op = [kind |-> kind, id |-> id], !.res = "none",
              !.rd = Absent, !.view = NoView]

\* a call returns r, or throws ("throw:...")
GReturned(q, r) == [q EXCEPT !.pc = "idle", !.res = r, !.rd = Absent]

\* readState: the aggregate, when the file exists and parses
readState(c) == IF c.kind = "multi" THEN "ok" ELSE "notinit"

\* tracker.get() on a member file
MemberState(m) == IF IsWhole(fs[MemberPath(m)]) THEN fs[MemberPath(m)].head ELSE NoState

\* new MultiProgress({id}): existsSync
NewMultiProgress(p) ==
    /\ GIdle(p) /\ ~proc[p].made
    /\ proc' = [proc EXCEPT ![p] =
                  IF fs[AggPath] # Absent
                  THEN GReturned([GCalled(@, "construct", <<>>, "idle") EXCEPT !.made = TRUE], "ok")
                  ELSE GCalled(@, "construct", <<>>, "ctor")]
    /\ UNCHANGED <<fs, now, orphaned>>

\* the constructor's writeState(initialState); what it throws is not caught
ConstructorWrite(p) ==
    /\ proc[p].pc = "ctor"
    /\ \E ok \in BOOLEAN :
         IF ok
         THEN /\ fs' = [fs EXCEPT ![AggPath] = Aggregate(NoTrackers, now, now)]
              /\ proc' = [proc EXCEPT ![p] = GReturned([@ EXCEPT !.made = TRUE], "ok")]
         ELSE /\ proc' = [proc EXCEPT ![p] = GReturned(@, "throw:write")]
              /\ UNCHANGED fs
    /\ UNCHANGED <<now, orphaned>>

\* an add that leaves the file of a member it already knows as it is
AddKeepsExisting(p, m, total) ==
    /\ GIdle(p) /\ proc[p].made
    /\ \E ok \in BOOLEAN :
         LET q == GCalled(proc[p], "add", m, "read") IN
         IF total <= 0
         THEN /\ proc' = [proc EXCEPT ![p] = GReturned(q, "throw:validation")]
              /\ UNCHANGED fs
         ELSE IF ~ok
         THEN /\ proc' = [proc EXCEPT ![p] = GReturned(q, "throw:write")]
              /\ UNCHANGED fs
         ELSE /\ proc' = [proc EXCEPT ![p] = [q EXCEPT !.trackers = @ \cup {m}]]
              /\ fs' = IF m \in proc[p].trackers /\ MemberState(m) # NoState
                       THEN fs
                       ELSE [fs EXCEPT ![MemberPath(m)] = Whole(InitState(total, "", now))]
    /\ UNCHANGED <<now, orphaned>>

\* add({trackerId: m, total, message: ""}): new ProgressTracker runs init and
\* throws when init fails; this.trackers.set
Add(p, m, total) ==
    /\ GIdle(p) /\ proc[p].made
    /\ \E ok \in BOOLEAN :
         LET q == GCalled(proc[p], "add", m, "read") IN
         IF total <= 0
         THEN /\ proc' = [proc EXCEPT ![p] = GReturned(q, "throw:validation")]
              /\ UNCHANGED fs
         ELSE IF ~ok
         THEN /\ proc' = [proc EXCEPT ![p] = GReturned(q, "throw:write")]
              /\ UNCHANGED fs
         ELSE /\ proc' = [proc EXCEPT ![p] = [q EXCEPT !.trackers = @ \cup {m}]]
              /\ fs' = [fs EXCEPT ![MemberPath(m)] = Whole(InitState(total, "", now))]
    /\ UNCHANGED <<now, orphaned>>

\* remove(m): unknown id, or tracker.clear() and this.trackers.delete
Remove(p, m) ==
    /\ GIdle(p) /\ proc[p].made
    /\ LET q == GCalled(proc[p], "remove", m, "read") IN
       IF m \notin proc[p].trackers
       THEN /\ proc' = [proc EXCEPT ![p] = GReturned(q, "notfound")]
            /\ UNCHANGED fs
       ELSE /\ proc' = [proc EXCEPT ![p] = [q EXCEPT !.trackers = @ \ {m}]]
            /\ fs' = [fs EXCEPT ![MemberPath(m)] = Absent]
    /\ UNCHANGED <<now, orphaned>>

\* done(): tracker.done() on every member known in-process; the results are
\* not looked at (a member without file stays without)
Done(p) ==
    /\ GIdle(p) /\ proc[p].made
    /\ proc' = [proc EXCEPT ![p] = GCalled(@, "done", <<>>, "read")]
    /\ fs' = [f \in GroupPaths |->
                IF \E m \in proc[p].trackers : f = MemberPath(m) /\ IsWhole(fs[f])
                THEN Whole(FinishState(fs[f].head, "", now))
                ELSE fs[f]]
    /\ UNCHANGED <<now, orphaned>>

\* readState of add, remove and done: when it fails the call returns success
\* without touching the aggregate
ReadState(p) ==
    /\ proc[p].pc = "read"
    /\ proc' = [proc EXCEPT ![p] =
                  IF readState(fs[AggPath]) = "ok"
                  THEN [@ EXCEPT !.pc = "write", !.rd = fs[AggPath]]
                  ELSE GReturned(@, "ok")]
    /\ UNCHANGED <<fs, now, orphaned>>

\* a mirror in which remove writes back an empty trackers map
MirroredRemoveEmpties(q) ==
    LET t == q.rd.trackers
        got(m) == MemberState(m) # NoState
    IN  CASE q.op.kind = "add" ->
               IF got(q.op.id) THEN Assign(t, q.op.id, MemberState(q.op.id)) ELSE t
          [] q.op.kind = "remove" -> NoTrackers
          [] OTHER ->
               [m \in DOMAIN t \cup {x \in q.trackers \ {ProtoKey} : got(x)} |->
                  IF m \in q.trackers /\ got(m) THEN MemberState(m) ELSE t[m]]

\* the trackers a call writes back: add mirrors its member, remove deletes
\* the entry, done mirrors every member known in-process; a member whose
\* get() fails keeps the entry read
Mirrored(q) ==
    LET t == q.rd.trackers
        got(m) == MemberState(m) # NoState
    IN  CASE q.op.kind = "add" ->
               IF got(q.op.id) THEN Assign(t, q.op.id, MemberState(q.op.id)) ELSE t
          [] q.op.kind = "remove" ->
               [m \in DOMAIN t \ {q.op.id} |-> t[m]]
          [] OTHER ->
               [m \in DOMAIN t \cup {x \in q.trackers \ {ProtoKey} : got(x)} |->
                  IF m \in q.trackers /\ got(m) THEN MemberState(m) ELSE t[m]]

\* writeState of add, remove and done; add returns without writing when its
\* member's get() fails; what writeState throws is not caught
WriteState(p) ==
    /\ proc[p].pc = "write"
    /\ \E ok \in BOOLEAN :
         LET q == proc[p] IN
         IF q.op.kind = "add" /\ MemberState(q.op.id) = NoState
         THEN /\ proc' = [proc EXCEPT ![p] = GReturned(q, "ok")]
              /\ UNCHANGED fs
         ELSE IF ok
         THEN /\ fs' = [fs EXCEPT ![AggPath] =
                          [q.rd EXCEPT !.trackers = Mirrored(q), !.updated = now]]
              /\ proc' = [proc EXCEPT ![p] = GReturned(q, "ok")]
         ELSE /\ proc' = [proc EXCEPT ![p] = GReturned(q, "throw:write")]
              /\ UNCHANGED fs
    /\ UNCHANGED <<now, orphaned>>

\* status(): readState, returned as it is
Status(p) ==
    /\ GIdle(p) /\ proc[p].made
    /\ proc' = [proc EXCEPT ![p] =
                  LET q == GCalled(@, "status", <<>>, "idle") IN
                  IF readState(fs[AggPath]) = "ok"
                  THEN GReturned([q EXCEPT !.view = fs[AggPath].trackers], "ok")
                  ELSE GReturned(q, "notinit")]
    /\ UNCHANGED <<fs, now, orphaned>>

\* a sync that reads the aggregate and attaches no handle
SyncAttachesNone(p) ==
    /\ GIdle(p) /\ proc[p].made
    /\ proc' = [proc EXCEPT ![p] =
                  GReturned(GCalled(@, "sync", <<>>, "idle"),
                            IF readState(fs[AggPath]) = "ok" THEN "ok" ELSE "notinit")]
    /\ UNCHANGED <<fs, now, orphaned>>

\* a sync that also mirrors the members known in-process into the aggregate
SyncRefreshes(p) ==
    /\ GIdle(p) /\ proc[p].made
    /\ LET q == GCalled(proc[p], "sync", <<>>, "idle") IN
       IF readState(fs[AggPath]) # "ok"
       THEN /\ proc' = [proc EXCEPT ![p] = GReturned(q, "notinit")]
            /\ UNCHANGED fs
       ELSE /\ proc' = [proc EXCEPT ![p] = GReturned(q, "ok")]
            /\ fs' = [fs EXCEPT ![AggPath] =
                        [@ EXCEPT !.trackers =
                           Mirrored([q EXCEPT !.op.kind = "done", !.rd = fs[AggPath]]),
                                  !.updated = now]]
    /\ UNCHANGED <<now, orphaned>>

\* sync(): readState; for every id of the aggregate that is not known
\* in-process, new ProgressTracker with the entry's total and message, which
\* runs init on the member's file (and throws when init fails)
Sync(p) ==
    /\ GIdle(p) /\ proc[p].made
    /\ \E ok \in BOOLEAN :
         LET q == GCalled(proc[p], "sync", <<>>, "idle")
             t == fs[AggPath].trackers
             new == DOMAIN t \ proc[p].trackers
         IN  IF readState(fs[AggPath]) # "ok"
             THEN /\ proc' = [proc EXCEPT ![p] = GReturned(q, "notinit")]
                  /\ UNCHANGED fs
             ELSE IF new # {} /\ ~ok
             THEN /\ proc' = [proc EXCEPT ![p] = GReturned(q, "throw:write")]
                  /\ UNCHANGED fs
             ELSE /\ proc' = [proc EXCEPT ![p] =
                                GReturned([q EXCEPT !.trackers = @ \cup new], "ok")]
                  /\ fs' = [f \in GroupPaths |->
                              IF \E m \in new : f = MemberPath(m)
                              THEN LET m == CHOOSE x \in new : f = MemberPath(x)
                                   IN  Whole(InitState(t[m].total, t[m].message, now))
                              ELSE fs[f]]
    /\ UNCHANGED <<now, orphaned>>

\* clear(): tracker.clear() on every member known in-process,
\* this.trackers.clear(), and the aggregate file is removed
ClearGroup(p) ==
    /\ GIdle(p) /\ proc[p].made
    /\ proc' = [proc EXCEPT ![p] =
                  GReturned([GCalled(@, "clear", <<>>, "idle") EXCEPT !.trackers = {}], "ok")]
    /\ fs' = [f \in GroupPaths |->
                IF f = AggPath \/ \E m \in proc[p].trackers : f = MemberPath(m)
                THEN Absent ELSE fs[f]]
    /\ UNCHANGED <<now, orphaned>>

\* a handle whose calls also mirror the member's new state into the aggregate
TrackerCallMirrors(p, m, kind, amount) ==
    /\ GIdle(p) /\ m \in proc[p].trackers
    /\ LET q == GCalled(proc[p], kind, m, "idle")
           s == MemberState(m)
           s1 == IF kind = "tracker.increment"
                 THEN IncrementState(s, amount, "", now)
                 ELSE FinishState(s, "", now)
       IN  IF kind = "tracker.clear"
           THEN /\ proc' = [proc EXCEPT ![p] = GReturned(q, "ok")]
                /\ fs' = [fs EXCEPT ![MemberPath(m)] = Absent]
           ELSE IF s = NoState
           THEN /\ proc' = [proc EXCEPT ![p] = GReturned(q, "notfound")]
                /\ UNCHANGED fs
           ELSE /\ proc' = [proc EXCEPT ![p] = GReturned(q, "ok")]
                /\ fs' = [fs EXCEPT
                            ![MemberPath(m)] = Whole(s1),
                            ![AggPath] = IF @.kind = "multi"
                                         THEN [@ EXCEPT !.trackers = Put(@, m, s1)]
                                         ELSE @]
    /\ UNCHANGED <<now, orphaned>>

\* a call on the handle add returned: increment(amount), done() or clear()
\* on the member's own file
TrackerCall(p, m, kind, amount) ==
    /\ GIdle(p) /\ m \in proc[p].trackers
    /\ LET q == GCalled(proc[p], kind, m, "idle")
           s == MemberState(m)
       IN  IF kind = "tracker.clear"
           THEN /\ proc' = [proc EXCEPT ![p] = GReturned(q, "ok")]
                /\ fs' = [fs EXCEPT ![MemberPath(m)] = Absent]
           ELSE IF s = NoState
           THEN /\ proc' = [proc EXCEPT ![p] = GReturned(q, "notfound")]
                /\ UNCHANGED fs
           ELSE /\ proc' = [proc EXCEPT ![p] = GReturned(q, "ok")]
                /\ fs' = [fs EXCEPT ![MemberPath(m)] =
                            Whole(IF kind = "tracker.increment"
                                  THEN IncrementState(s, amount, "", now)
                                  ELSE FinishState(s, "", now))]
    /\ UNCHANGED <<now, orphaned>>

TrackerKinds == {"tracker.increment", "tracker.done", "tracker.clear"}

InitGroup(P) ==
    /\ fs = [f \in GroupPaths |-> Absent]
    /\ now = 0
    /\ proc = [p \in P |-> GroupProc]
    /\ orphaned = FALSE

\* SpecGroup: one process and its MultiProgress instance.
InitGroupSeq == InitGroup({1})

NextGroup ==
    \/ \E p \in DOMAIN proc : NewMultiProgress(p)
    \/ \E p \in DOMAIN proc : ConstructorWrite(p)
    \/ \E p \in DOMAIN proc, m \in Members, t \in Totals : Add(p, m, t)
    \/ \E p \in DOMAIN proc, m \in Members : Remove(p, m)
    \/ \E p \in DOMAIN proc : Done(p)
    \/ \E p \in DOMAIN proc : ReadState(p)
    \/ \E p \in DOMAIN proc : WriteState(p)
    \/ \E p \in DOMAIN proc : Status(p)
    \/ \E p \in DOMAIN proc : Sync(p)
    \/ \E p \in DOMAIN proc : ClearGroup(p)
    \/ \E p \in DOMAIN proc, m \in Members, k \in TrackerKinds, a \in 1..MaxAmount :
         TrackerCall(p, m, k, a)

SpecGroup == InitGroupSeq /\ [][NextGroup]_vars

\* SpecGroupOwn: one process constructs the group, whose aggregate does not
\* exist, and calls add, remove, done and sync; the trackerId may be any
\* identifier validateId accepts, '__proto__' among them.
NextGroupOwn ==
    \/ \E p \in DOMAIN proc : NewMultiProgress(p)
    \/ \E p \in DOMAIN proc : ConstructorWrite(p)
    \/ \E p \in DOMAIN proc, m \in Members \cup {ProtoKey}, t \in Totals : Add(p, m, t)
    \/ \E p \in DOMAIN proc, m \in Members \cup {ProtoKey} : Remove(p, m)
    \/ \E p \in DOMAIN proc : Done(p)
    \/ \E p \in DOMAIN proc : ReadState(p)
    \/ \E p \in DOMAIN proc : WriteState(p)
    \/ \E p \in DOMAIN proc : Sync(p)

SpecGroupOwn == InitGroupSeq /\ [][NextGroupOwn]_vars

\* SpecGroupRace: two processes construct an instance for the same group and
\* add members of total MaxTotal.
InitGroupRace == InitGroup(Procs)

NextGroupRace ==
    \/ \E p \in DOMAIN proc : NewMultiProgress(p)
    \/ \E p \in DOMAIN proc : ConstructorWrite(p)
    \/ \E p \in DOMAIN proc, m \in Members : Add(p, m, MaxTotal)
    \/ \E p \in DOMAIN proc : ReadState(p)
    \/ \E p \in DOMAIN proc : WriteState(p)

SpecGroupRace == InitGroupRace /\ [][NextGroupRace]_vars

\* SpecGroupAdd: two processes hold an instance of the same existing group and
\* add members of total MaxTotal.
InitGroupAdd ==
    /\ fs = [f \in GroupPaths |->
               IF f = AggPath THEN Aggregate(NoTrackers, 0, 0) ELSE Absent]
    /\ now = 0
    /\ proc = [p \in Procs |-> [GroupProc EXCEPT !.made = TRUE]]
    /\ orphaned = FALSE

NextGroupAdd ==
    \/ \E p \in DOMAIN proc, m \in Members : Add(p, m, MaxTotal)
    \/ \E p \in DOMAIN proc : ReadState(p)
    \/ \E p \in DOMAIN proc : WriteState(p)

SpecGroupAdd == InitGroupAdd /\ [][NextGroupAdd]_vars

\* get(trackerId) on an instance: the handle this.trackers holds, or not-found
get(q, m) == IF m \in q.trackers THEN "ok" ELSE "notfound"

\* SpecGroupShare: two processes with an instance each for the same group.
\* Process 1 adds members of total MaxTotal, increments them through their
\* handles and removes them; process 2 calls sync and status.
Owner == 1
Follower == 2

InitGroupShare == InitGroup({Owner, Follower})

NextGroupShare ==
    \/ \E p \in DOMAIN proc : NewMultiProgress(p)
    \/ \E p \in DOMAIN proc : ConstructorWrite(p)
    \/ \E m \in Members : Add(Owner, m, MaxTotal)
    \/ \E m \in Members : Remove(Owner, m)
    \/ \E p \in DOMAIN proc : ReadState(p)
    \/ \E p \in DOMAIN proc : WriteState(p)
    \/ \E m \in Members : TrackerCall(Owner, m, "tracker.increment", 1)
    \/ Sync(Follower)
    \/ Status(Follower)

SpecGroupShare == InitGroupShare /\ [][NextGroupShare]_vars

\* ------------------------------------------------------- ProgressStream
\* The pull adapter: one process holds a ProgressStream, whose tracker file
\* is the only path.  Each call of the iterator protocol is one step (its
\* methods make one synchronous call on the tracker); another process may
\* clear the tracker file between two calls.
Errors == {"e1", "e2"}

\* the value a caller passes to return(): NoState stands for none
ReturnValues == {NoState, InitState(1, "m", 0)}

\* what next(), return() and throw() raise themselves
StreamError == "Progress stream error"
CompleteError == "Failed to complete progress"
FailedError == "Failed to mark progress as failed"
InitError == "Failed to initialize progress tracker"

\* op: the last call and its argument; res: "returned" or "thrown"; done and
\* value: the IteratorResult returned (value NoState: undefined); err: the
\* error thrown
StreamProc ==
    [op |-> [kind |-> "none", err |-> "", value |-> NoState], res |-> "none",
     made |-> FALSE, isDone |-> FALSE, incrementAmount |-> 0,
     done |-> FALSE, value |-> NoState, err |-> ""]

SReturned(q, kind, done, value) ==
    [q EXCEPT !.op.kind = kind, !.res = "returned", !.done = done,
              !.value = value, !.err = ""]

SThrown(q, kind, err) ==
    [q EXCEPT !.op.kind = kind, !.res = "thrown", !.done = FALSE,
              !.value = NoState, !.err = err]

\* tracker.increment / tracker.done can succeed on what the path holds
Readable == IsWhole(fs[Path])

\* new ProgressStream({total, message: "", incrementAmount}): the tracker's
\* constructor runs init and throws when it fails
NewProgressStream(p, total, amount) ==
    /\ ~proc[p].made
    /\ \E ok \in BOOLEAN :
         LET q == [proc[p] EXCEPT !.op = [kind |-> "new", err |-> "", value |-> NoState]] IN
         IF total <= 0 \/ ~ok
         THEN /\ proc' = [proc EXCEPT ![p] = SThrown(q, "new", InitError)]
              /\ UNCHANGED fs
         ELSE /\ proc' = [proc EXCEPT ![p] =
                            [SReturned(q, "new", FALSE, NoState) EXCEPT
                               !.made = TRUE, !.incrementAmount = amount]]
              /\ fs' = [fs EXCEPT ![Path] = Whole(InitState(total, "", now))]
    /\ UNCHANGED <<now, orphaned>>

\* a next() that increments by one whatever the configured step is
StreamNextByOne(p) ==
    /\ proc[p].made
    /\ \E ok \in BOOLEAN :
         LET q == [proc[p] EXCEPT !.op = [kind |-> "next", err |-> "", value |-> NoState]]
             s1 == IncrementState(fs[Path].head, 1, "", now)
         IN  IF q.isDone
             THEN /\ proc' = [proc EXCEPT ![p] = SReturned(q, "next", TRUE, NoState)]
                  /\ UNCHANGED fs
             ELSE IF q.incrementAmount < 0 \/ ~Readable \/ ~ok
             THEN /\ proc' = [proc EXCEPT ![p] = SThrown(q, "next", StreamError)]
                  /\ UNCHANGED fs
             ELSE /\ proc' = [proc EXCEPT ![p] = SReturned(q, "next", FALSE, s1)]
                  /\ fs' = [fs EXCEPT ![Path] = Whole(s1)]
    /\ UNCHANGED <<now, orphaned>>

\* a next() that reports done = true once the tracker is complete
StreamNextEndsAtTotal(p) ==
    /\ proc[p].made
    /\ \E ok \in BOOLEAN :
         LET q == [proc[p] EXCEPT !.op = [kind |-> "next", err |-> "", value |-> NoState]]
             s1 == IncrementState(fs[Path].head, q.incrementAmount, "", now)
         IN  IF q.isDone
             THEN /\ proc' = [proc EXCEPT ![p] = SReturned(q, "next", TRUE, NoState)]
                  /\ UNCHANGED fs
             ELSE IF q.incrementAmount < 0 \/ ~Readable \/ ~ok
             THEN /\ proc' = [proc EXCEPT ![p] = SThrown(q, "next", StreamError)]
                  /\ UNCHANGED fs
             ELSE /\ proc' = [proc EXCEPT ![p] = SReturned(q, "next", s1.complete, s1)]
                  /\ fs' = [fs EXCEPT ![Path] = Whole(s1)]
    /\ UNCHANGED <<now, orphaned>>

\* next()
StreamNext(p) ==
    /\ proc[p].made
    /\ \E ok \in BOOLEAN :
         LET q == [proc[p] EXCEPT !.op = [kind |-> "next", err |-> "", value |-> NoState]]
             s1 == IncrementState(fs[Path].head, q.incrementAmount, "", now)
         IN  IF q.isDone
             THEN /\ proc' = [proc EXCEPT ![p] = SReturned(q, "next", TRUE, NoState)]
                  /\ UNCHANGED fs
             ELSE IF q.incrementAmount < 0 \/ ~Readable \/ ~ok
             THEN /\ proc' = [proc EXCEPT ![p] = SThrown(q, "next", StreamError)]
                  /\ UNCHANGED fs
             ELSE /\ proc' = [proc EXCEPT ![p] = SReturned(q, "next", FALSE, s1)]
                  /\ fs' = [fs EXCEPT ![Path] = Whole(s1)]
    /\ UNCHANGED <<now, orphaned>>

\* return(value)
StreamReturn(p, value) ==
    /\ proc[p].made
    /\ \E ok \in BOOLEAN :
         LET q == [proc[p] EXCEPT !.op = [kind |-> "return", err |-> "", value |-> value]]
             s1 == FinishState(fs[Path].head, "", now)
         IN  IF q.isDone
             THEN /\ proc' = [proc EXCEPT ![p] = SReturned(q, "return", TRUE, value)]
                  /\ UNCHANGED fs
             ELSE IF ~Readable \/ ~ok
             THEN /\ proc' = [proc EXCEPT ![p] =
                                SThrown([q EXCEPT !.isDone = TRUE], "return", CompleteError)]
                  /\ UNCHANGED fs
             ELSE /\ proc' = [proc EXCEPT ![p] =
                                SReturned([q EXCEPT !.isDone = TRUE], "return", TRUE,
                                          IF value = NoState THEN s1 ELSE value)]
                  /\ fs' = [fs EXCEPT ![Path] = Whole(s1)]
    /\ UNCHANGED <<now, orphaned>>

\* a throw(error) that leaves isDone as it is
StreamThrowStaysOpen(p, e) ==
    /\ proc[p].made
    /\ \E ok \in BOOLEAN :
         LET q == [proc[p] EXCEPT !.op = [kind |-> "throw", err |-> e, value |-> NoState]]
             s1 == FinishState(fs[Path].head, "Failed: " \o e, now)
         IN  IF q.isDone
             THEN /\ proc' = [proc EXCEPT ![p] = SThrown(q, "throw", e)]
                  /\ UNCHANGED fs
             ELSE IF ~Readable \/ ~ok
             THEN /\ proc' = [proc EXCEPT ![p] = SThrown(q, "throw", FailedError)]
                  /\ UNCHANGED fs
             ELSE /\ proc' = [proc EXCEPT ![p] = SThrown(q, "throw", e)]
                  /\ fs' = [fs EXCEPT ![Path] = Whole(s1)]
    /\ UNCHANGED <<now, orphaned>>

\* throw(error), error being an Error whose message is e
StreamThrow(p, e) ==
    /\ proc[p].made
    /\ \E ok \in BOOLEAN :
         LET q == [proc[p] EXCEPT !.op = [kind |-> "throw", err |-> e, value |-> NoState]]
             s1 == FinishState(fs[Path].head, "Failed: " \o e, now)
         IN  IF q.isDone
             THEN /\ proc' = [proc EXCEPT ![p] = SThrown(q, "throw", e)]
                  /\ UNCHANGED fs
             ELSE IF ~Readable \/ ~ok
             THEN /\ proc' = [proc EXCEPT ![p] =
                                SThrown([q EXCEPT !.isDone = TRUE], "throw", FailedError)]
                  /\ UNCHANGED fs
             ELSE /\ proc' = [proc EXCEPT ![p] =
                                SThrown([q EXCEPT !.isDone = TRUE], "throw", e)]
                  /\ fs' = [fs EXCEPT ![Path] = Whole(s1)]
    /\ UNCHANGED <<now, orphaned>>

\* clear() of the same tracker by another process
OtherClear ==
    /\ fs[Path] # Absent
    /\ fs' = [fs EXCEPT ![Path] = Absent]
    /\ UNCHANGED <<now, proc, orphaned>>

InitStream ==
    /\ fs = [f \in {Path} |-> Absent]
    /\ now = 0
    /\ proc = [p \in {1} |-> StreamProc]
    /\ orphaned = FALSE

NextStream ==
    \/ \E p \in DOMAIN proc, t \in Totals, a \in Amounts : NewProgressStream(p, t, a)
    \/ \E p \in DOMAIN proc : StreamNext(p)
    \/ \E p \in DOMAIN proc, v \in ReturnValues : StreamReturn(p, v)
    \/ \E p \in DOMAIN proc, e \in Errors : StreamThrow(p, e)
    \/ OtherClear
    \/ Tick

SpecStream == InitStream /\ [][NextStream]_vars

\* ----------------------------------------------------- ProgressTransform
\* The push adapter: one process pipes chunks through a ProgressTransform,
\* whose tracker file is the only path.  _transform and _flush are one step
\* each.  A chunk is its size in bytes.  A callback with an error ends the
\* stream: no chunk is delivered after it, and none after _flush.
ChunkSizes == 0..MaxAmount
Intervals == 0..MaxAmount
\* chunks are delivered while the bytes processed stay within this
MaxBytes == MaxTotal + MaxAmount

\* res: "passed" (callback(null, chunk)), "flushed" (callback()), "error"
\* (callback(new Error)), "thrown" (the constructor threw); notified: whether
\* the last call emitted 'progress'; emitted: the state it emitted last
TransformProc ==
    [op |-> "none", res |-> "none", made |-> FALSE, ended |-> FALSE,
     updateInterval |-> 0, bytesProcessed |-> 0, lastEmittedBytes |-> 0,
     notified |-> FALSE, emitted |-> NoState]

\* new ProgressTransform({total, message: "", updateInterval})
NewProgressTransform(p, total, interval) ==
    /\ ~proc[p].made
    /\ \E ok \in BOOLEAN :
         IF total <= 0 \/ ~ok
         THEN /\ proc' = [proc EXCEPT ![p] = [@ EXCEPT !.op = "new", !.res = "thrown"]]
              /\ UNCHANGED fs
         ELSE /\ proc' = [proc EXCEPT ![p] =
                            [@ EXCEPT !.op = "new", !.res = "made", !.made = TRUE,
                                      !.updateInterval = interval]]
              /\ fs' = [fs EXCEPT ![Path] = Whole(InitState(total, "", now))]
    /\ UNCHANGED <<now, orphaned>>

\* _transform that forwards the byte count only when it notifies
TransformThrottled(p, chunkSize) ==
    /\ proc[p].made /\ ~proc[p].ended
    /\ proc[p].bytesProcessed + chunkSize <= MaxBytes
    /\ \E ok \in BOOLEAN :
         LET q == [proc[p] EXCEPT !.op = "transform",
                                  !.bytesProcessed = @ + chunkSize]
             due == \/ q.updateInterval = 0
                    \/ q.bytesProcessed - q.lastEmittedBytes >= q.updateInterval
             s1 == IF due THEN SetState(fs[Path].head, q.bytesProcessed, "", now)
                   ELSE fs[Path].head
         IN  IF ~Readable \/ ~ok
             THEN /\ proc' = [proc EXCEPT ![p] =
                                [q EXCEPT !.res = "error", !.ended = TRUE,
                                          !.notified = FALSE]]
                  /\ UNCHANGED fs
             ELSE /\ fs' = [fs EXCEPT ![Path] = Whole(s1)]
                  /\ proc' = [proc EXCEPT ![p] =
                                IF due
                                THEN [q EXCEPT !.res = "passed", !.notified = TRUE,
                                               !.emitted = s1,
                                               !.lastEmittedBytes = q.bytesProcessed]
                                ELSE [q EXCEPT !.res = "passed", !.notified = FALSE]]
    /\ UNCHANGED <<now, orphaned>>

\* _transform that notifies only when the bytes since the last notification
\* are more than the interval
TransformStrict(p, chunkSize) ==
    /\ proc[p].made /\ ~proc[p].ended
    /\ proc[p].bytesProcessed + chunkSize <= MaxBytes
    /\ \E ok \in BOOLEAN :
         LET q == [proc[p] EXCEPT !.op = "transform",
                                  !.bytesProcessed = @ + chunkSize]
             s1 == SetState(fs[Path].head, q.bytesProcessed, "", now)
             due == \/ q.updateInterval = 0
                    \/ q.bytesProcessed - q.lastEmittedBytes > q.updateInterval
         IN  IF ~Readable \/ ~ok
             THEN /\ proc' = [proc EXCEPT ![p] =
                                [q EXCEPT !.res = "error", !.ended = TRUE,
                                          !.notified = FALSE]]
                  /\ UNCHANGED fs
             ELSE /\ fs' = [fs EXCEPT ![Path] = Whole(s1)]
                  /\ proc' = [proc EXCEPT ![p] =
                                IF due
                                THEN [q EXCEPT !.res = "passed", !.notified = TRUE,
                                               !.emitted = s1,
                                               !.lastEmittedBytes = q.bytesProcessed]
                                ELSE [q EXCEPT !.res = "passed", !.notified = FALSE]]
    /\ UNCHANGED <<now, orphaned>>

\* _transform(chunk, encoding, callback)
Transform(p, chunkSize) ==
    /\ proc[p].made /\ ~proc[p].ended
    /\ proc[p].bytesProcessed + chunkSize <= MaxBytes
    /\ \E ok \in BOOLEAN :
         LET q == [proc[p] EXCEPT !.op = "transform",
                                  !.bytesProcessed = @ + chunkSize]
             s1 == SetState(fs[Path].head, q.bytesProcessed, "", now)
             due == \/ q.updateInterval = 0
                    \/ q.bytesProcessed - q.lastEmittedBytes >= q.updateInterval
         IN  IF ~Readable \/ ~ok
             THEN /\ proc' = [proc EXCEPT ![p] =
                                [q EXCEPT !.res = "error", !.ended = TRUE,
                                          !.notified = FALSE]]
                  /\ UNCHANGED fs
             ELSE /\ fs' = [fs EXCEPT ![Path] = Whole(s1)]
                  /\ proc' = [proc EXCEPT ![p] =
                                IF due
                                THEN [q EXCEPT !.res = "passed", !.notified = TRUE,
                                               !.emitted = s1,
                                               !.lastEmittedBytes = q.bytesProcessed]
                                ELSE [q EXCEPT !.res = "passed", !.notified = FALSE]]
    /\ UNCHANGED <<now, orphaned>>

\* _flush that notifies only when the interval allows it
FlushThrottled(p) ==
    /\ proc[p].made /\ ~proc[p].ended
    /\ \E ok \in BOOLEAN :
         LET q == [proc[p] EXCEPT !.op = "flush", !.ended = TRUE]
             s1 == FinishState(fs[Path].head, "", now)
             due == \/ q.updateInterval = 0
                    \/ q.bytesProcessed - q.lastEmittedBytes >= q.updateInterval
         IN  IF ~Readable \/ ~ok
             THEN /\ proc' = [proc EXCEPT ![p] =
                                [q EXCEPT !.res = "error", !.notified = FALSE]]
                  /\ UNCHANGED fs
             ELSE /\ fs' = [fs EXCEPT ![Path] = Whole(s1)]
                  /\ proc' = [proc EXCEPT ![p] =
                                IF due
                                THEN [q EXCEPT !.res = "flushed", !.notified = TRUE,
                                               !.emitted = s1]
                                ELSE [q EXCEPT !.res = "flushed", !.notified = FALSE]]
    /\ UNCHANGED <<now, orphaned>>

\* _flush(callback)
Flush(p) ==
    /\ proc[p].made /\ ~proc[p].ended
    /\ \E ok \in BOOLEAN :
         LET q == [proc[p] EXCEPT !.op = "flush", !.ended = TRUE]
             s1 == FinishState(fs[Path].head, "", now)
         IN  IF ~Readable \/ ~ok
             THEN /\ proc' = [proc EXCEPT ![p] =
                                [q EXCEPT !.res = "error", !.notified = FALSE]]
                  /\ UNCHANGED fs
             ELSE /\ fs' = [fs EXCEPT ![Path] = Whole(s1)]
                  /\ proc' = [proc EXCEPT ![p] =
                                [q EXCEPT !.res = "flushed", !.notified = TRUE,
                                          !.emitted = s1]]
    /\ UNCHANGED <<now, orphaned>>

InitTransform ==
    /\ fs = [f \in {Path} |-> Absent]
    /\ now = 0
    /\ proc = [p \in {1} |-> TransformProc]
    /\ orphaned = FALSE

NextTransform ==
    \/ \E p \in DOMAIN proc, t \in Totals, i \in Intervals : NewProgressTransform(p, t, i)
    \/ \E p \in DOMAIN proc, n \in ChunkSizes : Transform(p, n)
    \/ \E p \in DOMAIN proc : Flush(p)
    \/ OtherClear
    \/ Tick

SpecTransform == InitTransform /\ [][NextTransform]_vars

\* ------------------------------------------------------------------ CLI
\* `prog multi <id> <action>`: every invocation is a process of its own, which
\* constructs a MultiProgress for the group, acts and exits; nothing of the
\* instance outlives it, so this.trackers holds only what the invocation
\* itself added.  An invocation is one step.  The process record keeps what
\* the last invocation did: res "ok" (exit 0), "notinit" (exit 1) or a throw;
\* view: the trackers of the status it printed.
DefaultMessage == "Processing"

\* what the constructor leaves at the aggregate path when its write succeeds
Constructed(c) == IF c = Absent THEN Aggregate(NoTrackers, now, now) ELSE c

CliEnded(p, kind, id, r, view) ==
    [GroupProc EXCEPT !.op = [kind |-> kind, id |-> id], !.res = r, !.view = view]

\* the invocation's constructor fails to write the aggregate
CliCrash(p, kind, id) ==
    /\ fs[AggPath] = Absent
    /\ proc' = [proc EXCEPT ![p] = CliEnded(p, kind, id, "throw:write", NoView)]
    /\ UNCHANGED fs

\* prog multi <id> init, prog multi <id> status: the status is printed
CliStatus(p, kind) ==
    /\ kind \in {"cli.init", "cli.status"}
    /\ \/ CliCrash(p, kind, <<>>)
       \/ LET c == Constructed(fs[AggPath]) IN
          /\ fs' = [fs EXCEPT ![AggPath] = c]
          /\ proc' = [proc EXCEPT ![p] =
                        IF readState(c) = "ok"
                        THEN CliEnded(p, kind, <<>>, "ok", c.trackers)
                        ELSE CliEnded(p, kind, <<>>, "notinit", NoView)]
    /\ UNCHANGED <<now, orphaned>>

\* prog multi <id> add <tracker> <total>: multi.add, then the member's state
\* is printed
CliAdd(p, m, total) ==
    /\ \/ CliCrash(p, "cli.add", m)
       \/ \E ok \in BOOLEAN :
            LET c == Constructed(fs[AggPath])
                s == InitState(total, DefaultMessage, now)
            IN  IF total <= 0
                THEN /\ fs' = [fs EXCEPT ![AggPath] = c]
                     /\ proc' = [proc EXCEPT ![p] =
                                   CliEnded(p, "cli.add", m, "throw:validation", NoView)]
                ELSE IF readState(c) # "ok"
                THEN /\ fs' = [fs EXCEPT ![AggPath] = c, ![MemberPath(m)] = Whole(s)]
                     /\ proc' = [proc EXCEPT ![p] = CliEnded(p, "cli.add", m, "ok", NoView)]
                ELSE IF ok
                THEN /\ fs' = [fs EXCEPT
                                 ![AggPath] = [c EXCEPT !.trackers = Assign(@, m, s),
                                                        !.updated = now],
                                 ![MemberPath(m)] = Whole(s)]
                     /\ proc' = [proc EXCEPT ![p] = CliEnded(p, "cli.add", m, "ok", NoView)]
                ELSE /\ fs' = [fs EXCEPT ![AggPath] = c, ![MemberPath(m)] = Whole(s)]
                     /\ proc' = [proc EXCEPT ![p] =
                                   CliEnded(p, "cli.add", m, "throw:write", NoView)]
    /\ UNCHANGED <<now, orphaned>>

\* prog multi <id> done: tracker.done() on every tracker of multi.getAll(),
\* which is empty in a new instance; then the status is printed
CliDone(p) ==
    /\ \/ CliCrash(p, "cli.done", <<>>)
       \/ LET c == Constructed(fs[AggPath]) IN
          /\ fs' = [fs EXCEPT ![AggPath] = c]
          /\ proc' = [proc EXCEPT ![p] =
                        IF readState(c) = "ok"
                        THEN CliEnded(p, "cli.done", <<>>, "ok", c.trackers)
                        ELSE CliEnded(p, "cli.done", <<>>, "notinit", NoView)]
    /\ UNCHANGED <<now, orphaned>>

\* prog multi <id> clear: multi.remove for every tracker of multi.getAll()
\* (none), then clear({id: 'multi-<id>'}), which removes the aggregate file
CliClear(p) ==
    /\ \/ CliCrash(p, "cli.clear", <<>>)
       \/ /\ fs' = [fs EXCEPT ![AggPath] = Absent]
          /\ proc' = [proc EXCEPT ![p] = CliEnded(p, "cli.clear", <<>>, "ok", NoView)]
    /\ UNCHANGED <<now, orphaned>>

NextCli ==
    \/ \E p \in DOMAIN proc, k \in {"cli.init", "cli.status"} : CliStatus(p, k)
    \/ \E p \in DOMAIN proc, m \in Members, t \in Totals : CliAdd(p, m, t)
    \/ \E p \in DOMAIN proc : CliDone(p)
    \/ \E p \in DOMAIN proc : CliClear(p)
    \/ Tick

SpecCli == InitGroupSeq /\ [][NextCli]_vars

\* ---------------------------------------------------------- properties
Stored == fs[Path].head
\* p's last call was of one of the kinds K and returned r
Ended(p, K, r) ==
    proc[p].pc = "idle" /\ proc[p].op.kind \in K /\ proc[p].res = r
\* p's call of one of the kinds K has read rd and computed the state st it
\* is about to write
Computed(p, K) == proc[p].pc = "ready" /\ proc[p].op.kind \in K

\* C1: whatever the interleaving of the write steps of init, increment, set
\* and finish calls, the tracker path is absent or holds the whole buffer of
\* one write call, no read fails to decode, and every state a call has read is
\* such a whole state.
C1_AtomicReads ==
    /\ fs[Path] = Absent \/ IsWhole(fs[Path])
    /\ \A p \in DOMAIN proc :
         /\ proc[p].res \notin {"parse", "format"}
         /\ Computed(p, {"increment", "set", "finish"}) => proc[p].rd # NoState

\* a call has read the tracker while another call's temp file is half written
C1_ReadDuringWrite ==
    \E p, q \in DOMAIN proc :
        /\ p # q
        /\ proc[p].pc = "half" /\ fs[Tmp(p)] = Half(proc[p].st)
        /\ Computed(q, {"increment", "set", "finish"})
        /\ Whole(proc[q].rd) = fs[Path]

\* C2: when both increment(1) calls on the fresh tracker have succeeded, the
\* stored current is 1 or 2.
C2_FinalOneOrTwo ==
    (\A p \in DOMAIN proc : Ended(p, {"increment"}, "ok"))
        => IsWhole(fs[Path]) /\ Stored.current \in {1, 2}

\* both calls succeeded and one increment was lost
C2_LostUpdate ==
    /\ \A p \in DOMAIN proc : Ended(p, {"increment"}, "ok")
    /\ Stored.current = 1

\* both calls succeeded and both increments count
C2_BothCount ==
    /\ \A p \in DOMAIN proc : Ended(p, {"increment"}, "ok")
    /\ Stored.current = 2

\* C3: the state stored at the tracker path always has total > 0 and
\* 0 <= current <= total.
C3_Bounds ==
    fs[Path] # Absent
        => Stored.total > 0 /\ 0 <= Stored.current /\ Stored.current <= Stored.total

\* two processes have each completed an increment or a set and the tracker
\* stands at its total
C3_ClampedAtTotal ==
    /\ \A p \in DOMAIN proc : Ended(p, {"increment", "set"}, "ok")
    /\ IsWhole(fs[Path]) /\ Stored.total = MaxTotal /\ Stored.current = Stored.total

\* C4 (as claimed): the state an increment or set writes has complete true
\* exactly when its current >= total.
C4_CompleteIffAtTotal ==
    \A p \in DOMAIN proc :
        Computed(p, {"increment", "set"})
            => (proc[p].st.complete <=> proc[p].st.current >= proc[p].st.total)

\* C4 (amended): the state an increment or set writes has complete true exactly
\* when its current >= total or the state the call read was already complete.
C4_CompleteIsSticky ==
    \A p \in DOMAIN proc :
        Computed(p, {"increment", "set"})
            => (proc[p].st.complete
                  <=> (proc[p].st.current >= proc[p].st.total \/ proc[p].rd.complete))

\* a set on a finished tracker is about to store current < total with complete
\* still true
C4_SetAfterFinish ==
    \E p \in DOMAIN proc :
        /\ Computed(p, {"set"})
        /\ proc[p].rd.complete /\ proc[p].rd.current = proc[p].rd.total
        /\ proc[p].st.current < proc[p].st.total
        /\ proc[p].st.complete

\* C5: an increment, set, finish or get that returned a failure has not
\* changed what the tracker path holds.
C5_FailureLeavesFile ==
    \A p \in DOMAIN proc :
        /\ proc[p].pc = "idle"
        /\ proc[p].op.kind \in {"increment", "set", "finish", "get"}
        /\ proc[p].res \notin {"none", "ok"}
        => ~proc[p].touched

\* one call failed on a file cut short; after a later init, another call's
\* rename failed
C5_DecodeAndRenameFailures ==
    \E p, q \in DOMAIN proc :
        /\ Ended(p, {"increment"}, "parse")
        /\ Ended(q, {"finish"}, "rename")
        /\ IsWhole(fs[Path])

\* C6: a process that died during a write either died before the rename, and
\* its call has not changed the tracker path, which holds no partial buffer;
\* or died after the rename, and the tracker path holds the whole new state.
C6_CrashSafe ==
    \A p \in DOMAIN proc :
        ~proc[p].alive /\ proc[p].pc \in {"ready", "half", "full", "renamed"}
        => IF proc[p].pc = "renamed"
           THEN fs[Path] = Whole(proc[p].st)
           ELSE /\ ~proc[p].touched
                /\ fs[Path] = Absent \/ IsWhole(fs[Path])
                /\ proc[p].rd # NoState => fs[Path] = Whole(proc[p].rd)

\* the process died with its temp file half written, over an existing tracker
C6_DiedMidWrite ==
    \E p \in DOMAIN proc :
        /\ ~proc[p].alive /\ proc[p].pc = "half"
        /\ fs[Tmp(p)] = Half(proc[p].st)
        /\ IsWhole(fs[Path])

\* C7 (as claimed): with increment and finish only, the stored current never
\* decreases, also when several processes mutate the tracker at once.
C7_NeverDecreases ==
    [][Stored'.current >= Stored.current]_vars

\* C7 (amended): with increment and finish only, the stored current never
\* decreases as long as a single process has been using the tracker.
C7_SingleWriterNeverDecreases ==
    [][(\E p \in DOMAIN proc :
          \A q \in DOMAIN proc \ {p} : proc[q] = IdleProc /\ proc'[q] = IdleProc)
       => Stored'.current >= Stored.current]_vars

\* one process alone has raised the tracker to its total by increments
C7_SingleWriterProgress ==
    \E p \in DOMAIN proc :
        /\ \A q \in DOMAIN proc \ {p} : proc[q] = IdleProc
        /\ Ended(p, {"increment"}, "ok")
        /\ Stored.total = MaxTotal /\ Stored.current = Stored.total

\* C8: the state an increment, set or finish writes has the total and the
\* startTime of the state the call read.
C8_TotalAndStartKept ==
    \A p \in DOMAIN proc :
        Computed(p, {"increment", "set", "finish"})
            => /\ proc[p].st.total = proc[p].rd.total
               /\ proc[p].st.startTime = proc[p].rd.startTime

\* a finish computed at a later millisecond than the tracker's start
C8_FinishLater ==
    \E p \in DOMAIN proc :
        /\ Computed(p, {"finish"})
        /\ proc[p].rd.startTime < now
        /\ proc[p].st.updatedTime = now

C10_Finish ==
    \A p \in DOMAIN proc :
        Computed(p, {"finish"})
            => LET r == proc[p].rd
                   s == proc[p].st
               IN  /\ s.current = s.total /\ s.percentage = 100 /\ s.complete
                   /\ (r.current = r.total /\ r.percentage = 100 /\ r.complete)
                        => /\ s.current = r.current
                           /\ s.percentage = r.percentage
                           /\ s.complete = r.complete
                           /\ s.total = r.total
                           /\ s.startTime = r.startTime

\* a finish on a tracker below its total, and a second finish on the result
C10_FirstFinish ==
    \E p \in DOMAIN proc :
        /\ Computed(p, {"finish"})
        /\ proc[p].rd.current < proc[p].rd.total /\ ~proc[p].rd.complete

C10_SecondFinish ==
    \E p \in DOMAIN proc :
        /\ Computed(p, {"finish"})
        /\ proc[p].rd.current = proc[p].rd.total /\ proc[p].rd.complete
        /\ proc[p].rd.updatedTime < now

\* C11 (as claimed): a clear that the file system does not refuse returns
\* success, whatever the other processes do on the tracker at the same time,
\* and once the tracker path is absent only an init makes it exist again.
C11_ClearSucceedsAndStays ==
    [][/\ \A p \in DOMAIN proc :
            (proc'[p].pc = "idle" /\ proc'[p].op.kind = "clear"
               /\ proc'[p].res \notin {"none", "clear"})
                => proc'[p].res = "ok"
       /\ (fs[Path] = Absent /\ fs'[Path] # Absent)
            => \E p \in DOMAIN proc :
                 proc[p].pc = "full" /\ proc[p].op.kind = "init"]_vars

\* the first half alone: no clear ends on a file that was gone at its unlink
C11_NoClearFindsFileGone ==
    \A p \in DOMAIN proc : ~Ended(p, {"clear"}, "gone")

\* the second half alone: an absent tracker path is made to exist by init only
C11_OnlyInitCreates ==
    [][(fs[Path] = Absent /\ fs'[Path] # Absent)
         => \E p \in DOMAIN proc :
              proc[p].pc = "full" /\ proc[p].op.kind = "init"]_vars

\* C12: an increment, set, finish or get with valid arguments, called while
\* the tracker path is absent (never initialized, or cleared), returns the
\* not-found failure at once; the call leaves the path absent.
C12_NotFound ==
    [][/\ \A p \in DOMAIN proc, o \in ReadOps({""}) :
            (o.n >= 0 /\ fs[Path] = Absent /\ BeginRead(p, o))
                => proc'[p].res = "notfound"
       /\ \A p \in DOMAIN proc :
            (Idle(p) /\ fs[Path] = Absent /\ proc'[p] # proc[p]
               /\ proc'[p].op.kind \in {"increment", "set", "finish", "get"})
                => /\ proc'[p].pc = "idle" /\ ~proc'[p].touched
                   /\ fs'[Path] = Absent]_vars

\* after one process has removed the tracker file by clear, a finish of the
\* other returned not-found
C12_FinishAfterClear ==
    \E p, q \in DOMAIN proc :
        /\ Ended(p, {"clear"}, "ok") /\ proc[p].touched
        /\ Ended(q, {"finish"}, "notfound")
        /\ fs[Path] = Absent

\* C13: init with total <= 0, increment with a negative amount and set with a
\* negative value return the validation failure at once, whatever the tracker
\* path holds; the step that returns it changes no file and leaves no temp
\* file, and the call has not changed the tracker path.
C13_ValidationFirst ==
    [][/\ \A p \in DOMAIN proc, o \in InitOps(Msgs) :
            (o.n <= 0 /\ BeginInit(p, o)) => proc'[p].res = "validation"
       /\ \A p \in DOMAIN proc, o \in IncrementOps(Msgs) \cup SetOps(Msgs) :
            (o.n < 0 /\ BeginRead(p, o)) => proc'[p].res = "validation"
       /\ \A p \in DOMAIN proc :
            (Idle(p) /\ proc'[p] # proc[p] /\ proc'[p].res = "validation")
                => /\ proc'[p].pc = "idle" /\ ~proc'[p].touched
                   /\ fs' = fs /\ orphaned' = orphaned]_vars

\* a set was rejected on an initialized tracker, which still holds its fresh
\* state, and there is no temp file
C13_RejectedOnLiveTracker ==
    \E p \in DOMAIN proc :
        /\ Ended(p, {"set"}, "validation")
        /\ fs[Path] = Whole(InitState(MaxTotal, "m", 0))
        /\ \A f \in Paths \ {Path} : fs[f] = Absent
        /\ ~orphaned

\* C14 (as claimed): a call given an identifier that validateId does not
\* accept (a single-tracker id, a group id given to the MultiProgress
\* constructor, a member id given to add) is rejected with a validation
\* failure, returned or carried by the exception of the member's constructor,
\* before the file system is reached.  An empty id counts as omitted.
C14_IdsValidated ==
    \A p \in DOMAIN proc :
        (proc[p].op.kind \in {"init", "construct", "add"}
           /\ proc[p].op.id # <<>> /\ validateId(proc[p].op.id) # "ok")
            => /\ proc[p].res \in {"validation", "throw:validation"}
               /\ ~proc[p].accessed

\* the same for single-tracker ids and member ids only
C14_TrackerIdsValidated ==
    \A p \in DOMAIN proc :
        (proc[p].op.kind \in {"init", "add"}
           /\ proc[p].op.id # <<>> /\ validateId(proc[p].op.id) # "ok")
            => /\ proc[p].res \in {"validation", "throw:validation"}
               /\ ~proc[p].accessed

\* C15 (as claimed): an init, increment, set or finish called with a message
\* longer than MAX_MESSAGE_LENGTH returns the validation failure at once, and
\* no message longer than that is ever stored.
C15_LongMessageRejected ==
    [][/\ \A p \in DOMAIN proc, o \in InitOps(LongMsgs) :
            (validateMessage(o.msg) # "ok" /\ BeginInit(p, o))
                => proc'[p].res = "validation"
       /\ \A p \in DOMAIN proc, o \in ReadOps(LongMsgs) :
            (validateMessage(o.msg) # "ok" /\ BeginRead(p, o))
                => proc'[p].res \in {"validation", "notfound"}
       /\ fs'[Path] # Absent
            => validateMessage(fs'[Path].head.message) = "ok"]_vars

\* the last part alone: the tracker file never holds an over-length message
C15_NoLongMessageStored ==
    fs[Path] # Absent => validateMessage(Stored.message) = "ok"

\* the aggregate's entry for member m (NoState: none)
Entry(c, m) ==
    IF c.kind = "multi" /\ m \in DOMAIN c.trackers THEN c.trackers[m] ELSE NoState

\* C16 (as claimed): the constructor of MultiProgress, add (with the member
\* tracker's construction), remove, done and sync never throw: a failure is a
\* returned result.
C16_NeverThrows ==
    \A p \in DOMAIN proc :
        proc[p].res \notin {"throw:validation", "throw:write"}

\* C17 (as claimed): the write of a constructor never changes an aggregate
\* file that exists, whatever the other process has done since the
\* constructor's existsSync.
C17_ConstructionKeepsAggregate ==
    [][\A p \in DOMAIN proc :
         (proc[p].pc = "ctor" /\ proc'[p].pc = "idle" /\ fs[AggPath] # Absent)
             => fs'[AggPath] = fs[AggPath]]_vars

C19_DoneFinishesAll ==
    \A p \in DOMAIN proc :
        (proc[p].pc = "idle" /\ proc[p].op.kind = "done" /\ proc[p].res = "ok")
            => \A m \in proc[p].trackers :
                 /\ MemberState(m) # NoState
                 /\ MemberState(m).complete
                 /\ MemberState(m).current = MemberState(m).total
                 /\ Entry(fs[AggPath], m) = MemberState(m)

\* the first half alone: the members' backing files are finished
C19_DoneFinishesFiles ==
    \A p \in DOMAIN proc :
        (proc[p].pc = "idle" /\ proc[p].op.kind = "done" /\ proc[p].res = "ok")
            => \A m \in proc[p].trackers :
                 MemberState(m) # NoState /\ MemberState(m).complete

C21_SyncAttachesAll ==
    [][\A p \in DOMAIN proc :
         (Sync(p) /\ proc'[p].res = "ok")
             => \A m \in DOMAIN fs[AggPath].trackers : get(proc'[p], m) = "ok"]_vars

\* the follower, which never adds, has synced and holds a handle for a member
\* the owner added
C21_FollowerKnowsMember ==
    \E m \in Members :
        /\ proc[Follower].pc = "idle" /\ proc[Follower].op.kind = "sync"
        /\ proc[Follower].res = "ok"
        /\ get(proc[Follower], m) = "ok"
        /\ m \in proc[Owner].trackers
        /\ Entry(fs[AggPath], m) # NoState

C23_MirrorFailureReported ==
    [][\A p \in DOMAIN proc :
         /\ (ReadState(p) /\ readState(fs[AggPath]) # "ok")
              => proc'[p].res \notin {"ok", "none"}
         /\ (WriteState(p) /\ proc[p].op.kind \in {"add", "remove", "done"})
              => proc'[p].res # "throw:write"]_vars

\* the half about reading alone: a call that finds the aggregate unreadable
\* does not return success
C23_UnreadableAggregateReported ==
    [][\A p \in DOMAIN proc :
         (ReadState(p) /\ readState(fs[AggPath]) # "ok") => proc'[p].res # "ok"]_vars

\* C24 (as claimed): an add() without trackerId that returns adds an
\* identifier this.trackers did not hold.
C24_GeneratedIdIsNew ==
    [][\A p \in DOMAIN proc :
         (AddWithId(p, <<>>) /\ proc'[p].res = "ok")
             => proc'[p].trackers # proc[p].trackers]_vars

\* C25 (as claimed): init on a single tracker changes the file of no other
\* single tracker, of no group member and of no group aggregate; add of a
\* member changes the file of no single tracker, of no other (group, member)
\* pair and of no other group's aggregate; constructing a group changes the
\* file of no single tracker and of no member.
C25_OwnPathOnly ==
    [][\A p \in DOMAIN proc, id \in PathIds :
         LET same(f) == Holds(fs', f) = Holds(fs, f) IN
         /\ InitWithId(p, id)
              => /\ \A i \in PathIds \ {id} : same(SinglePath(i))
                 /\ \A g \in PathIds : same(MultiFilePath(g))
                 /\ \A g \in PathIds, m \in PathIds : same(GroupMemberPath(g, m))
         /\ AddWithId(p, id)
              => /\ \A i \in PathIds : same(SinglePath(i))
                 /\ \A g \in PathIds \ {proc[p].group} : same(MultiFilePath(g))
                 /\ \A g \in PathIds, m \in PathIds :
                      <<g, m>> # <<proc[p].group, id>> => same(GroupMemberPath(g, m))
         /\ Construct(p, id)
              => /\ \A i \in PathIds : same(SinglePath(i))
                 /\ \A g \in PathIds, m \in PathIds : same(GroupMemberPath(g, m))]_vars

\* C26: a next() on an adapter that has not been stopped either returns
\* done = false with the state it has stored, whose current is the current
\* read plus the configured step, clamped at total, all else of the tracker
\* kept; or (the increment failed) throws the stream error and leaves the
\* file as it was.
C26_NextIncrementsByStep ==
    [][\A p \in DOMAIN proc :
         (StreamNext(p) /\ ~proc[p].isDone)
             => \/ /\ proc'[p].res = "returned" /\ ~proc'[p].done
                   /\ IsWhole(fs[Path]) /\ fs'[Path] = Whole(proc'[p].value)
                   /\ proc'[p].value.current =
                        Min(fs[Path].head.current + proc[p].incrementAmount,
                            fs[Path].head.total)
                   /\ proc'[p].value.total = fs[Path].head.total
                   /\ proc'[p].value.startTime = fs[Path].head.startTime
                   /\ proc'[p].value.message = fs[Path].head.message
                \/ /\ proc'[p].res = "thrown" /\ proc'[p].err = StreamError
                   /\ fs' = fs]_vars

\* a next() with the largest step has returned done = false and a state
\* clamped at a smaller total, which is what the file holds
C26_NextClamped ==
    \E p \in DOMAIN proc :
        /\ proc[p].op.kind = "next" /\ proc[p].res = "returned" /\ ~proc[p].done
        /\ proc[p].incrementAmount = MaxAmount
        /\ proc[p].value.total < MaxAmount
        /\ proc[p].value.current = proc[p].value.total
        /\ fs[Path] = Whole(proc[p].value)

\* C27: every return() and throw() leaves the adapter stopped, whether or not
\* it could finish the tracker; a stopped adapter stays stopped; on a stopped
\* adapter next() returns done = true, and next(), return() and throw()
\* leave the tracker file as it is.
C27_StoppedIsAbsorbing ==
    [][\A p \in DOMAIN proc :
         /\ proc[p].isDone => proc'[p].isDone
         /\ (\E v \in ReturnValues : StreamReturn(p, v)) => proc'[p].isDone
         /\ (\E e \in Errors : StreamThrow(p, e)) => proc'[p].isDone
         /\ (proc[p].isDone /\ StreamNext(p))
              => proc'[p].res = "returned" /\ proc'[p].done
         /\ (proc[p].isDone /\ proc'[p] # proc[p]) => fs' = fs]_vars

\* after a throw() that marked the tracker as failed, a next() has returned
\* done = true and the file still holds the failure annotation
C27_NextAfterThrow ==
    \E p \in DOMAIN proc, e \in Errors :
        /\ proc[p].isDone
        /\ proc[p].op.kind = "next" /\ proc[p].res = "returned" /\ proc[p].done
        /\ IsWhole(fs[Path]) /\ fs[Path].head.complete
        /\ fs[Path].head.message = "Failed: " \o e

\* C28 (as claimed): a return() that follows a return() which returned, with
\* the same argument, returns too, with the same done flag and the same
\* value.
C28_ReturnRepeats ==
    [][\A p \in DOMAIN proc, v \in ReturnValues :
         (/\ proc[p].op.kind = "return" /\ proc[p].op.value = v
          /\ proc[p].res = "returned"
          /\ StreamReturn(p, v))
             => /\ proc'[p].res = "returned"
                /\ proc'[p].done = proc[p].done
                /\ proc'[p].value = proc[p].value]_vars

\* the part that does hold: the repeated call returns, with done = true, and
\* leaves the tracker file alone
C28_ReturnRepeatsDone ==
    [][\A p \in DOMAIN proc, v \in ReturnValues :
         (proc[p].op.kind = "return" /\ proc[p].res = "returned" /\ StreamReturn(p, v))
             => proc'[p].res = "returned" /\ proc'[p].done /\ fs' = fs]_vars

\* C29 (as claimed): throw(error) throws, and what it throws is the error it
\* was given, whether the adapter is stopped or not and whatever the tracker
\* file holds.
C29_ThrowRethrows ==
    [][\A p \in DOMAIN proc, e \in Errors :
         StreamThrow(p, e) => proc'[p].res = "thrown" /\ proc'[p].err = e]_vars

\* the same for the calls that find the tracker file missing
C29_ThrowRethrowsWithoutFile ==
    [][\A p \in DOMAIN proc, e \in Errors :
         (StreamThrow(p, e) /\ fs[Path] = Absent) => proc'[p].err = e]_vars

\* the part that does hold: throw(error) never returns
C29_ThrowNeverReturns ==
    [][\A p \in DOMAIN proc, e \in Errors :
         StreamThrow(p, e) => proc'[p].res = "thrown"]_vars

C31_NotifiedOnlyBeyondInterval ==
    [][\A p \in DOMAIN proc, n \in ChunkSizes :
         (Transform(p, n) /\ proc'[p].notified)
             => \/ proc[p].updateInterval = 0
                \/ proc'[p].bytesProcessed - proc[p].lastEmittedBytes
                     > proc[p].updateInterval]_vars

\* C31 (amended): a chunk that passes causes a notification exactly when the
\* interval is 0 or the bytes since the last notification, this chunk
\* included, are at least the interval; the notification carries the state
\* just stored, and the bytes notified are then the bytes processed.
C31_NotifiedFromInterval ==
    [][\A p \in DOMAIN proc, n \in ChunkSizes :
         (Transform(p, n) /\ proc'[p].res = "passed")
             => /\ proc'[p].notified
                     <=> \/ proc[p].updateInterval = 0
                         \/ proc[p].bytesProcessed + n - proc[p].lastEmittedBytes
                              >= proc[p].updateInterval
                /\ proc'[p].notified
                     => /\ fs'[Path] = Whole(proc'[p].emitted)
                        /\ proc'[p].lastEmittedBytes = proc'[p].bytesProcessed
                /\ ~proc'[p].notified
                     => /\ proc'[p].emitted = proc[p].emitted
                        /\ proc'[p].lastEmittedBytes = proc[p].lastEmittedBytes]_vars

\* a chunk has caused a notification with the bytes since the last one
\* equal to a positive interval
C31_NotifiedAtInterval ==
    \E p \in DOMAIN proc :
        /\ proc[p].op = "transform" /\ proc[p].res = "passed" /\ proc[p].notified
        /\ proc[p].updateInterval = MaxAmount
        /\ proc[p].bytesProcessed = MaxAmount
        /\ proc[p].emitted # NoState

\* C32: a _flush that ends without error has finished the tracker and
\* emitted a notification, whatever the bytes since the last one: it carries
\* the state just stored, with complete = true, percentage = 100 and current
\* = total; and once the stream has ended nothing is emitted any more.
C32_FinalNotification ==
    [][\A p \in DOMAIN proc :
         /\ (Flush(p) /\ proc'[p].res = "flushed")
              => /\ proc'[p].notified
                 /\ fs'[Path] = Whole(proc'[p].emitted)
                 /\ proc'[p].emitted.complete
                 /\ proc'[p].emitted.percentage = 100
                 /\ proc'[p].emitted.current = proc'[p].emitted.total
         /\ proc[p].ended => proc'[p] = proc[p]]_vars

\* the stream was flushed while fewer bytes than the interval had passed and
\* nothing had been notified; the notification of the flush is the only one
C32_FlushedWhileThrottled ==
    \E p \in DOMAIN proc :
        /\ proc[p].res = "flushed" /\ proc[p].notified
        /\ proc[p].lastEmittedBytes = 0
        /\ proc[p].bytesProcessed > 0
        /\ proc[p].bytesProcessed < proc[p].updateInterval
        /\ proc[p].emitted.complete /\ proc[p].emitted.percentage = 100

\* C33 (as claimed): an increment that reads a complete state is rejected: it
\* never gets to compute a state to write.
C33_IncrementOnCompleteRejected ==
    \A p \in DOMAIN proc :
        ~(Computed(p, {"increment"}) /\ proc[p].rd.complete)

\* the second half alone: the state such an increment is about to write is
\* the state it read
C33_IncrementOnCompleteKeepsState ==
    \A p \in DOMAIN proc :
        (Computed(p, {"increment"}) /\ proc[p].rd.complete)
            => proc[p].st = proc[p].rd

\* C34 (as claimed): when `prog multi <id> done` has ended with success, every
\* member the aggregate lists has a backing file with complete = true and
\* current = total, and the status printed shows each of them so.
C34_CliDoneFinishesMembers ==
    \A p \in DOMAIN proc :
        (proc[p].op.kind = "cli.done" /\ proc[p].res = "ok")
            => \A m \in DOMAIN fs[AggPath].trackers :
                 /\ MemberState(m) # NoState
                 /\ MemberState(m).complete
                 /\ MemberState(m).current = MemberState(m).total
                 /\ m \in DOMAIN proc[p].view
                 /\ proc[p].view[m].complete
                 /\ proc[p].view[m].current = proc[p].view[m].total

\* C35 (as claimed): a sync() changes the current, complete, message and
\* startTime of no member's backing file, and creates and removes none.
C35_SyncKeepsMemberFiles ==
    [][\A p \in DOMAIN proc, m \in Members :
         Sync(p)
             => /\ (MemberState(m) = NoState) <=> (fs'[MemberPath(m)] = Absent)
                /\ fs'[MemberPath(m)].head.current = MemberState(m).current
                /\ fs'[MemberPath(m)].head.complete = MemberState(m).complete
                /\ fs'[MemberPath(m)].head.message = MemberState(m).message
                /\ fs'[MemberPath(m)].head.startTime = MemberState(m).startTime]_vars

\* the part that does hold: sync() leaves the files of the members it already
\* knows in-process as they are
C35_SyncKeepsKnownMembers ==
    [][\A p \in DOMAIN proc, m \in Members :
         (Sync(p) /\ m \in proc[p].trackers)
             => fs'[MemberPath(m)] = fs[MemberPath(m)]]_vars

\* C36 (as claimed): with increment, set and finish only, by several
\* processes at once, a tracker file that holds complete = true never comes
\* to hold complete = false.
C36_CompleteStays ==
    [][Stored.complete => Stored'.complete]_vars

\* C36 (amended): with increment, set and finish only, a tracker file that
\* holds complete = true never comes to hold complete = false as long as a
\* single process has been using the tracker.
C36_SingleWriterCompleteStays ==
    [][(\E p \in DOMAIN proc :
          \A q \in DOMAIN proc \ {p} : proc[q] = IdleProc /\ proc'[q] = IdleProc)
       => (Stored.complete => Stored'.complete)]_vars

\* one process alone has set a complete tracker back below its total, and
\* the file holds complete = true still
C36_SetBelowTotalStaysComplete ==
    \E p \in DOMAIN proc :
        /\ \A q \in DOMAIN proc \ {p} : proc[q] = IdleProc
        /\ Ended(p, {"set"}, "ok") /\ proc[p].touched
        /\ IsWhole(fs[Path]) /\ Stored.complete
        /\ Stored.current < Stored.total

\* C37 (as claimed): when the last call of each of two processes is an add
\* that returned, for different members of the same existing group, the
\* aggregate on disk holds an entry for both members.
C37_BothAddsMirrored ==
    \A p \in DOMAIN proc, q \in DOMAIN proc :
        (/\ p # q
         /\ Ended(p, {"add"}, "ok") /\ Ended(q, {"add"}, "ok")
         /\ proc[p].op.id # proc[q].op.id)
            => /\ fs[AggPath].kind = "multi"
               /\ {proc[p].op.id, proc[q].op.id} \subseteq DOMAIN fs[AggPath].trackers

\* C38: only return() and throw() stop the adapter; until then no next()
\* returns done = true: a next() that returns (it throws when the increment
\* fails) returns done = false, and on a tracker that has reached its total it
\* leaves current at total and complete = true.
C38_NextNeverEnds ==
    [][\A p \in DOMAIN proc :
         /\ (~proc[p].isDone /\ proc'[p].isDone)
              => \/ \E v \in ReturnValues : StreamReturn(p, v)
                 \/ \E e \in Errors : StreamThrow(p, e)
         /\ (StreamNext(p) /\ ~proc[p].isDone)
              => /\ ~(proc'[p].res = "returned" /\ proc'[p].done)
                 /\ ~proc'[p].isDone
                 /\ (/\ proc'[p].res = "returned"
                     /\ fs[Path].head.current = fs[Path].head.total)
                        => /\ fs'[Path].head.current = fs[Path].head.total
                           /\ fs'[Path].head.complete
                           /\ proc'[p].value = fs'[Path].head]_vars

\* a next() has returned done = false with the state of a tracker that is
\* complete at its total, and the adapter is not stopped
C38_NextAtTotal ==
    \E p \in DOMAIN proc :
        /\ ~proc[p].isDone
        /\ proc[p].op.kind = "next" /\ proc[p].res = "returned" /\ ~proc[p].done
        /\ proc[p].value.complete
        /\ proc[p].value.current = proc[p].value.total
        /\ fs[Path] = Whole(proc[p].value)

\* C39 (as claimed): between the calls of the one process that constructed
\* the group, the identifiers of the aggregate on disk are the identifiers
\* known in-process.
C39_AggregateListsKnownIds ==
    \A p \in DOMAIN proc :
        (GIdle(p) /\ proc[p].made)
            => /\ fs[AggPath].kind = "multi"
               /\ DOMAIN fs[AggPath].trackers = proc[p].trackers

\* the same for an add() that returned its tracker
C39_AddedIdIsListed ==
    \A p \in DOMAIN proc :
        Ended(p, {"add"}, "ok")
            => /\ fs[AggPath].kind = "multi"
               /\ DOMAIN fs[AggPath].trackers = proc[p].trackers

====
